---------------------------- MODULE Spec2Model ----------------------------
(***************************************************************************)
(* A model of gofft: the table cache (Prepare / getVars), the in-place     *)
(* radix-2 transform (fft / ifft / permute / permutationIndex) and the     *)
(* convolution layer (Convolve, FastConvolve, MultiConvolve,               *)
(* FastMultiConvolve).                                                     *)
(*                                                                         *)
(* complex128 values are modelled exactly, as elements of the subring      *)
(* Z[1/2][w] of the complex numbers, w = exp(-2*pi*i/RingOrder): a value   *)
(* is [c |-> <<c_0 .. c_(H-1)>>, d |-> e] and stands for                   *)
(* (c_0 + c_1 w + ... + c_(H-1) w^(H-1)) / 2^e, with H = RingOrder/2 and   *)
(* w^H = -1.  Every twiddle factor of a transform whose length divides     *)
(* RingOrder is a power of w, so the arithmetic of the code is carried out *)
(* without rounding.  Go slices are functions on 0 .. len-1.               *)
(***************************************************************************)
EXTENDS Integers, Sequences, FiniteSets, TLC

VARIABLES
  \* the process-wide table cache (fft.go:16-20)
  factorsMap, permMap,
  \* permutation tables: the length, the table built for it, a buffer and its
  \* original contents, and how far the run has got
  pN, pperm, px, px0, ppc,
  \* concurrent callers of Prepare and getVars: the RWMutex (fft.go:17), each
  \* goroutine's position, call, argument N and locals (ok, err, the tables
  \* getVars read), the number of times factorsMap[N] was assigned, and
  \* whether the runtime stopped the program on a detected map race; the
  \* version of Prepare that runs ("tables": fft.go:24-40 fills factorsMap and
  \* permMap; "fixedFactors": fft.go:204-219 fills permMap only)
  prepareLock, pc, op, argN, okv, err, got, stores, fatal, pver,
  \* one goroutine calling Prepare, FFT and IFFT on a buffer it owns: the
  \* buffer, its contents at the start and before the last call, the calls
  \* made so far and the error the last one returned; the version of FFT and
  \* IFFT that runs ("builds": getVars calls Prepare, fft.go:69-75; "checks":
  \* getVars calls checkN, fft.go:433-439); ferrv is the error value the last
  \* call returned, its dynamic type and its text
  buf, buf0, bufPrev, calls, ferr, ferrv, fftver,
  \* one call of NextPow2 on a 64-bit int: the argument and the result as the
  \* sets of their one bits, the version that runs ("shifts": utils.go:19-30,
  \* "bitlen": bits.Len64) and the position of the caller
  uN, ures, uver, upc,
  \* one goroutine calling Convolve, FastConvolve or MultiConvolve: the caller's
  \* two buffers and their contents at the start, the sequences handed to
  \* MultiConvolve, the call made, the slice it returned and how it ended
  \* ("nil", "error", or "panic" for a run-time panic); the way MultiConvolve
  \* went: the return taken, the buckets its loop found populated, and
  \* whether it raised mx; whether Convolve was handed one slice as both
  \* operands, and the caller's sequences as they are after MultiConvolve
  cx, cy, cx0, cy0, mX, cop, cret, cerr, mpath, csame, mXa,
  \* one call of FastMultiConvolve(X, n, multithread), step by step: X and its
  \* contents at the call, n and its value at the call, the flag, the position
  \* of the calling goroutine, its loop variable i, the goroutines it started
  \* that have not finished, the WaitGroup counter, how the call ended and
  \* the number of pair convolutions started so far; the version of the
  \* function that runs (one goroutine per pair, or runtime.NumCPU()
  \* goroutines per level), the value of runtime.NumCPU() and the number of
  \* go statements executed in the current level; flog counts, for every
  \* block size n and offset i, the calls convolve(X[i:i+n], X[i+n:i+2n]) made
  fX, fX0, fn, fn0, fmt, fpc, fi, ftasks, fwg, fres, fstarted, fver, fcpu, fspawned,
  flog

cacheVars == <<factorsMap, permMap>>
permVars == <<pN, pperm, px, px0, ppc>>
utilVars == <<uN, ures, uver, upc>>
lockVars == <<prepareLock, pc, op, argN, okv, err, got, stores, fatal, pver>>
fftVars == <<buf, buf0, bufPrev, calls, ferr, ferrv, fftver>>
convVars == <<cx, cy, cx0, cy0, mX, cop, cret, cerr, mpath, csame, mXa>>
fmcVars == <<fX, fX0, fn, fn0, fmt, fpc, fi, ftasks, fwg, fres, fstarted, fver, fcpu,
             fspawned, flog>>
vars == <<cacheVars, permVars, lockVars, fftVars, convVars, fmcVars, utilVars>>

(* ------------------------------ bounds -------------------------------- *)

\* longest caller-supplied sequence handed to FFT, IFFT, Convolve, FastConvolve
MaxLen == 3

\* log2 of the largest table built by the permutation specification
MaxLog == 4

\* the buffers permuted hold the labels c, c+1, .. for c up to MaxOff
MaxOff == 7

\* goroutines calling Prepare, FFT, IFFT concurrently
NumProcs == 2

\* longest buffer handed to FFT and IFFT, and the calls made on one buffer
MaxBuf == 8
MaxCalls == 2

\* the sequences handed to MultiConvolve: how many, and how long
MaxSeqs == 3
MaxSeqLen == 2

\* longest buffer handed to FastMultiConvolve
MaxFmc == 8

\* largest value of runtime.NumCPU()
MaxCPU == 3

\* the length of the README's test array 1, 2, .., 8
RampLen == 8

(* ----------------------------- integers ------------------------------- *)

RECURSIVE BitAnd(_, _)
BitAnd(a, b) ==
  IF a = 0 \/ b = 0 THEN 0
  ELSE (a % 2) * (b % 2) + 2 * BitAnd(a \div 2, b \div 2)

RECURSIVE BitOr(_, _)
BitOr(a, b) ==
  IF a = 0 THEN b
  ELSE IF b = 0 THEN a
  ELSE (IF a % 2 = 1 \/ b % 2 = 1 THEN 1 ELSE 0) + 2 * BitOr(a \div 2, b \div 2)

RECURSIVE Shr(_, _)
Shr(a, k) == IF k = 0 THEN a ELSE Shr(a \div 2, k - 1)

RECURSIVE Pow2(_)
Pow2(k) == IF k = 0 THEN 1 ELSE 2 * Pow2(k - 1)

\* log2 of a power of two
RECURSIVE Log2(_)
Log2(N) == IF N <= 1 THEN 0 ELSE 1 + Log2(N \div 2)

\* the larger of the two without the comparison: the first
MaxKept(a, b) == a

Max(a, b) == IF a >= b THEN a ELSE b

\* the bit test without the N == 0 case
IsPow2NoZero(N) == BitAnd(N, N - 1) = 0

\* utils.go IsPow2
IsPow2(N) == IF N = 0 THEN FALSE ELSE BitAnd(N, N - 1) = 0

\* N |= N >> k
OrShr(N, k) == BitOr(N, Shr(N, k))

\* utils.go NextPow2: the or-shift cascade of the bit hack
NextPow2(N) ==
  IF N = 0 THEN 1
  ELSE OrShr(OrShr(OrShr(OrShr(OrShr(N - 1, 1), 2), 4), 8), 16) + 1

\* the least power of two that is >= n, counting up from the power of two p
RECURSIVE CeilPow2(_, _)
CeilPow2(n, p) == IF p >= n THEN p ELSE CeilPow2(n, 2 * p)

(* ------------------------------ values -------------------------------- *)

\* the element of a one-element set: The({e(v) : v \in {a}}) is e(a), with a
\* computed once however often e uses it
The(S) == CHOOSE r \in S : TRUE

\* the tuple <<f[1], .., f[n]>>, every entry computed once
RECURSIVE Tup(_, _)
Tup(f, n) == IF n = 0 THEN << >> ELSE Append(Tup(f, n - 1), f[n])

(* ------------------------ exact complex values ------------------------ *)

\* every transform length of the model divides RingOrder
RingOrder ==
  CeilPow2(Max(Max(Max(2 * MaxLen, MaxBuf), MaxFmc),
               Max(2 * RampLen, CeilPow2(MaxSeqLen, 1) * CeilPow2(MaxSeqs, 1))), 1)
H == RingOrder \div 2

RECURSIVE SumTo(_, _)
SumTo(f, n) == IF n = 0 THEN 0 ELSE f[n] + SumTo(f, n - 1)

\* lowest terms: the denominator 2^d is reduced while every coefficient is even
RECURSIVE Norm(_, _)
Norm(c, d) ==
  The({IF d > 0 /\ \A k \in 1..H : v[k] % 2 = 0
       THEN Norm(Tup([k \in 1..H |-> v[k] \div 2], H), d - 1)
       ELSE [c |-> v, d |-> d] : v \in {c}})

CInt(n) == [c |-> Tup([k \in 1..H |-> IF k = 1 THEN n ELSE 0], H), d |-> 0]
CZero == CInt(0)
COne == CInt(1)

\* w^e for any integer e >= 0
WPow(e) ==
  LET r == e % RingOrder
  IN  [c |-> Tup([k \in 1..H |-> IF r < H THEN (IF k = r + 1 THEN 1 ELSE 0)
                                  ELSE (IF k = r - H + 1 THEN -1 ELSE 0)], H),
       d |-> 0]

\* the imaginary unit: i = w^(3*RingOrder/4)
CI == WPow(3 * (RingOrder \div 4))

CAdd(a, b) ==
  The({LET d == Max(u.d, v.d)
           fu == Pow2(d - u.d)
           fv == Pow2(d - v.d)
       IN  Norm(Tup([k \in 1..H |-> fu * u.c[k] + fv * v.c[k]], H), d) :
       u \in {a}, v \in {b}})

CNeg(a) == The({[c |-> Tup([k \in 1..H |-> 0 - u.c[k]], H), d |-> u.d] : u \in {a}})

CSub(a, b) == CAdd(a, CNeg(b))

CMul(a, b) ==
  The({LET coef(k) ==
             SumTo([i \in 1..H |->
                      LET j == ((k - i) % H) + 1
                      IN  IF i <= k THEN u.c[i] * v.c[j] ELSE 0 - u.c[i] * v.c[j]], H)
       IN  Norm(Tup([k \in 1..H |-> coef(k)], H), u.d + v.d) :
       u \in {a}, v \in {b}})

\* a / N for N a power of two
CDivPow2(a, N) == The({Norm(u.c, u.d + Log2(N)) : u \in {a}})

(* ------------------------------ slices -------------------------------- *)

len(x) == Cardinality(DOMAIN x)

Nil == [i \in {} |-> CZero]

\* the slice f[0], .., f[n-1], every entry computed once
RECURSIVE Mk(_, _)
Mk(f, n) == IF n = 0 THEN Nil ELSE Mk(f, n - 1) @@ ((n - 1) :> f[n - 1])

\* x[a:b]
Slice(x, a, b) == The({Mk([i \in 0..(b - a - 1) |-> u[a + i]], b - a) : u \in {x}})

\* utils.go ZeroPad: a new array of length N holding the first min(len(x), N) of x
ZeroPad(x, N) ==
  The({Mk([i \in 0..(N - 1) |-> IF i < len(u) THEN u[i] ELSE CZero], N) : u \in {x}})

(* ------------------------- tables (fft.go) ---------------------------- *)

\* fft.go roots: factors[n] = cos(-2 pi n/N) + i sin(-2 pi n/N), n < N/2
roots(N) == Mk([n \in 0..((N \div 2) - 1) |-> WPow(n * (RingOrder \div N))], N \div 2)

\* fft.go permutationIndex, first loop nest: the raw bit-reversed index vector
RECURSIVE doubleInner(_, _, _)
doubleInner(index, n, i) ==
  The({IF i >= n THEN u
       ELSE LET a == [u EXCEPT ![i] = 2 * u[i]]
            IN  doubleInner([a EXCEPT ![i + n] = a[i] + 1], n, i + 1) :
       u \in {index}})

RECURSIVE doubleOuter(_, _, _)
doubleOuter(index, N, n) ==
  The({IF n >= N THEN u ELSE doubleOuter(doubleInner(u, n, 0), N, 2 * n) :
       u \in {index}})

\* the inner "for ind < i { ind = index[ind] }"
RECURSIVE chase(_, _, _)
chase(index, i, ind) == IF ind < i THEN chase(index, i, index[ind]) ELSE ind

\* fft.go permutationIndex, second loop: keep only the necessary swaps
RECURSIVE rearrange(_, _, _)
rearrange(index, N, i) ==
  The({IF i >= N - 1 THEN u
       ELSE rearrange([u EXCEPT ![i] = chase(u, i, u[i])], N, i + 1) :
       u \in {index}})

rawIndex(N) == doubleOuter([i \in 0..(N - 1) |-> 0], N, 1)

\* the table without the second loop: the raw vector used as a swap list
permutationIndexRaw(N) == rawIndex(N)

permutationIndex(N) == rearrange(rawIndex(N), N, 1)

\* fft.go permute: exchange x[i] and x[perm[i]] for i = 1 .. N-2, ascending
RECURSIVE permuteFrom(_, _, _, _)
permuteFrom(x, perm, N, i) ==
  The({IF i >= N - 1 THEN u
       ELSE permuteFrom([u EXCEPT ![i] = u[perm[i]], ![perm[i]] = u[i]], perm, N, i + 1) :
       u \in {x}})

\* the sweep stopping at N/2 instead of N-2
permuteHalf(x, perm, N) == permuteFrom(x, perm, (N \div 2) + 1, 1)

permute(x, perm, N) == permuteFrom(x, perm, N, 1)

(* ------------------------ transforms (fft.go) ------------------------- *)

\* the butterfly without the twiddle factor: f := x[j]
butterflyNoTwiddle(x, i, j, w) ==
  The({[u EXCEPT ![i] = CAdd(u[i], u[j]), ![j] = CSub(u[i], u[j])] : u \in {x}})

\* f := w * x[j]; x[i], x[j] = x[i]+f, x[i]-f
butterfly(x, i, j, w) ==
  The({LET f == CMul(w, u[j])
       IN  [u EXCEPT ![i] = CAdd(u[i], f), ![j] = CSub(u[i], f)] :
       u \in {x}})

RECURSIVE stageK(_, _, _, _, _, _)
stageK(x, factors, n, s, o, k) ==
  The({IF k >= n THEN u
       ELSE stageK(butterfly(u, k + o, k + o + n, factors[k * s]),
                   factors, n, s, o, k + 1) :
       u \in {x}})

RECURSIVE stageO(_, _, _, _, _, _)
stageO(x, N, factors, n, s, o) ==
  The({IF o >= N THEN u
       ELSE stageO(stageK(u, factors, n, s, o, 0), N, factors, n, s, o + 2 * n) :
       u \in {x}})

RECURSIVE stages(_, _, _, _, _)
stages(x, N, factors, n, s) ==
  The({IF n >= N THEN u
       ELSE stages(stageO(u, N, factors, n, s \div 2, 0), N, factors, 2 * n, s \div 2) :
       u \in {x}})

\* the closed form for N = 4
swap(x, i, j) == The({[u EXCEPT ![i] = u[j], ![j] = u[i]] : u \in {x}})

\* the closed form for N = 4 without its exchange of x[1] and x[2]
fft4NoSwap(x, factors) ==
  butterfly(
    butterfly(
      butterfly(
        butterfly(x, 0, 1, factors[0]),
        2, 3, factors[0]),
      0, 2, factors[0]),
    1, 3, factors[1])

fft4(x, factors) ==
  butterfly(
    butterfly(
      butterfly(
        butterfly(swap(x, 1, 2), 0, 1, factors[0]),
        2, 3, factors[0]),
      0, 2, factors[0]),
    1, 3, factors[1])

\* fft.go fft
fft(x, N, factors, perm) ==
  CASE N = 1 -> x
    [] N = 2 -> butterfly(x, 0, 1, factors[0])
    [] N = 4 -> fft4(x, factors)
    [] OTHER -> stages(permute(x, perm, N), N, factors, 1, N)

(* the operations fft performs, in the order it performs them: an exchange
   x[i], x[j] = x[j], x[i], or a butterfly of x[i] and x[j] in the stage with
   sub-block size n, with the twiddle factors[w] *)
exchangeOp(i, j) == [op |-> "swap", n |-> 0, i |-> i, j |-> j, w |-> 0]

\* the butterfly of factors[k*s] with every index taken from o alone
butterflyOpNoK(n, s, o, k) == [op |-> "bfly", n |-> n, i |-> o, j |-> o + n, w |-> k * s]

\* i := k + o; f := factors[k*s] * x[i+n]; x[i], x[i+n] = x[i]+f, x[i]-f
butterflyOp(n, s, o, k) == [op |-> "bfly", n |-> n, i |-> k + o, j |-> k + o + n, w |-> k * s]

RECURSIVE opsK(_, _, _, _)
opsK(n, s, o, k) ==
  IF k >= n THEN << >> ELSE <<butterflyOp(n, s, o, k)>> \o opsK(n, s, o, k + 1)

RECURSIVE opsO(_, _, _, _)
opsO(N, n, s, o) ==
  IF o >= N THEN << >> ELSE opsK(n, s, o, 0) \o opsO(N, n, s, o + 2 * n)

RECURSIVE opsStages(_, _, _)
opsStages(N, n, s) ==
  IF n >= N THEN << >> ELSE opsO(N, n, s \div 2, 0) \o opsStages(N, 2 * n, s \div 2)

\* permute: x[i], x[perm[i]] = x[perm[i]], x[i] for 1 <= i < N-1
RECURSIVE opsPermute(_, _, _)
opsPermute(perm, N, i) ==
  IF i >= N - 1 THEN << >> ELSE <<exchangeOp(i, perm[i])>> \o opsPermute(perm, N, i + 1)

\* the general path of fft: permute, then the stage / group / index loops
opsGeneral(N, perm) == opsPermute(perm, N, 1) \o opsStages(N, 1, N)

\* the closed forms of fft for N = 1, 2, 4
opsShortcut(N) ==
  CASE N = 1 -> << >>
    [] N = 2 -> <<butterflyOp(1, 1, 0, 0)>>
    [] N = 4 -> <<exchangeOp(1, 2), butterflyOp(1, 2, 0, 0), butterflyOp(1, 2, 2, 0),
                  butterflyOp(2, 1, 0, 0), butterflyOp(2, 1, 0, 1)>>

\* the buffer after the operations ops[from..]
RECURSIVE replay(_, _, _, _)
replay(x, factors, ops, from) ==
  The({IF from > Len(ops) THEN u
       ELSE replay(IF ops[from].op = "swap" THEN swap(u, ops[from].i, ops[from].j)
                   ELSE butterfly(u, ops[from].i, ops[from].j, factors[ops[from].w]),
                   factors, ops, from + 1) :
       u \in {x}})

\* the inverse's reversal left out
reverseSkipped(x, N, i) == x

\* x[i], x[N-i] = x[N-i], x[i] for 1 <= i < N/2
RECURSIVE reverseFrom(_, _, _)
reverseFrom(x, N, i) ==
  The({IF i >= N \div 2 THEN u
       ELSE reverseFrom([u EXCEPT ![i] = u[N - i], ![N - i] = u[i]], N, i + 1) :
       u \in {x}})

\* x[i] /= N for i < N
scale(x, N) ==
  The({Mk([i \in DOMAIN u |-> IF i < N THEN CDivPow2(u[i], N) ELSE u[i]], len(u)) :
       u \in {x}})

\* the inverse without the division by N
ifftNoScale(x, N, factors, perm) == fft(reverseFrom(x, N, 1), N, factors, perm)

\* fft.go ifft: reverse the interior, transform, scale by 1/N
ifft(x, N, factors, perm) == scale(fft(reverseFrom(x, N, 1), N, factors, perm), N)

\* x[i] *= y[i] for i < N
mulInto(x, y, N) ==
  The({Mk([i \in DOMAIN u |-> IF i < N THEN CMul(u[i], v[i]) ELSE u[i]], len(u)) :
       u \in {x}, v \in {y}})

\* y left as its transform
zeroToSkipped(y, N) == y

\* y[i] = 0 for i < N
zeroTo(y, N) ==
  The({Mk([i \in DOMAIN v |-> IF i < N THEN CZero ELSE v[i]], len(v)) : v \in {y}})

\* convolve: <<x', y'>> after fft(x), fft(y), x[i] *= y[i], y[i] = 0, ifft(x)
convolve(x, y, N, factors, perm) ==
  The({<<ifft(mulInto(fx, fy, N), N, factors, perm), zeroTo(fy, N)>> :
       fx \in {fft(x, N, factors, perm)}, fy \in {fft(y, N, factors, perm)}})

(* --------------------------- Go maps ---------------------------------- *)

EmptyMap == [k \in {} |-> Nil]

\* an assignment that leaves only the new entry in the map
mapPutAlone(m, k, v) == (k :> v)

\* m[k] = v
mapPut(m, k, v) == (k :> v) @@ m

\* m[k]: the zero value (a nil slice) for a missing key
mapGet(m, k) == IF k \in DOMAIN m THEN m[k] ELSE Nil

\* m[k] for a map of lists of arrays: a nil list for a missing key
mapGetL(m, k) == IF k \in DOMAIN m THEN m[k] ELSE << >>

\* m restricted to the keys in S
RECURSIVE mapOf(_, _)
mapOf(m, S) ==
  IF S = {} THEN EmptyMap
  ELSE The({(k :> m[k]) @@ mapOf(m, S \ {k}) : k \in {CHOOSE j \in S : TRUE}})

\* delete(m, k)
mapDel(m, k) == The({mapOf(u, DOMAIN u \ {k}) : u \in {m}})

CacheIdle == factorsMap = EmptyMap /\ permMap = EmptyMap

Procs == 1..NumProcs

\* the lengths the concurrent callers pass: two powers of two and one that is not
CacheLens == {2, 3, 4}

FreeLock == [readers |-> {}, writer |-> 0, waiting |-> {}]

\* no call is in progress
LockAtRest ==
  /\ prepareLock = FreeLock
  /\ pc = [p \in Procs |-> "idle"]
  /\ op = [p \in Procs |-> "none"]
  /\ argN = [p \in Procs |-> 0]
  /\ okv = [p \in Procs |-> FALSE]
  /\ err = [p \in Procs |-> "nil"]
  /\ got = [p \in Procs |-> <<FALSE, FALSE>>]
  /\ stores = [N \in CacheLens |-> 0]
  /\ fatal = FALSE

LockIdle == LockAtRest /\ pver = "tables"

FftIdle ==
  /\ buf = Nil /\ buf0 = Nil /\ bufPrev = Nil /\ calls = << >> /\ ferr = "nil"
  /\ fftver = "builds"
  /\ ferrv = [type |-> "nil", text |-> << >>]

ConvIdle ==
  /\ cx = Nil /\ cy = Nil /\ cx0 = Nil /\ cy0 = Nil /\ mX = << >>
  /\ cop = "none" /\ cret = Nil /\ cerr = "nil"
  /\ mpath = [via |-> "none", visited |-> << >>, raised |-> FALSE]
  /\ csame = FALSE /\ mXa = << >>

FmcIdle ==
  /\ fX = Nil /\ fX0 = Nil /\ fn = 0 /\ fn0 = 0 /\ fmt = FALSE /\ fpc = "idle"
  /\ fi = 0 /\ ftasks = {} /\ fwg = 0 /\ fres = "none" /\ fstarted = 0
  /\ fver = "perPair" /\ fcpu = 0 /\ fspawned = 0 /\ flog = << >>

(* ------------------ SpecPerm: the permutation tables ------------------ *)

UtilIdle == uN = {} /\ ures = {} /\ uver = "shifts" /\ upc = "idle"

PermIdle == pN = 0 /\ pperm = Nil /\ px = Nil /\ px0 = Nil /\ ppc = "idle"

\* i with its low `bits` bits reversed (bits.Reverse64(i) >> shift in TestPermute)
RECURSIVE bitrev(_, _)
bitrev(i, bits) ==
  IF bits = 0 THEN 0
  ELSE (i % 2) * Pow2(bits - 1) + bitrev(i \div 2, bits - 1)

\* a tuple as a slice
Slice0(t) == Mk([i \in 0..(Len(t) - 1) |-> t[i + 1]], Len(t))

\* the expected tables of TestPermutationIndex
TestTab(N) ==
  CASE N = 1 -> Slice0(<<0>>)
    [] N = 2 -> Slice0(<<0, 1>>)
    [] N = 4 -> Slice0(<<0, 2, 2, 3>>)
    [] N = 8 -> Slice0(<<0, 4, 2, 6, 4, 5, 6, 7>>)
    [] N = 16 -> Slice0(<<0, 8, 4, 12, 4, 10, 6, 14, 8, 9, 10, 13, 12, 13, 14, 15>>)

PermLens == {Pow2(k) : k \in 0..MaxLog}

PermInit ==
  /\ pN \in PermLens
  /\ px0 \in {[i \in 0..(pN - 1) |-> i + c] : c \in 0..MaxOff}
  /\ px = px0
  /\ pperm = Nil
  /\ ppc = "new"
  /\ CacheIdle
  /\ LockIdle
  /\ FftIdle
  /\ ConvIdle
  /\ FmcIdle
  /\ UtilIdle

\* perm := permutationIndex(N), as Prepare stores it
BuildIndex ==
  /\ ppc = "new"
  /\ pperm' = permutationIndex(pN)
  /\ ppc' = "built"
  /\ UNCHANGED <<pN, px, px0, cacheVars, lockVars, fftVars, convVars, fmcVars, utilVars>>

\* permute(x, perm, N), as fft calls it
Permute ==
  /\ ppc = "built"
  /\ px' = permute(px, pperm, pN)
  /\ ppc' = "permuted"
  /\ UNCHANGED <<pN, pperm, px0, cacheVars, lockVars, fftVars, convVars, fmcVars, utilVars>>

PermNext == BuildIndex \/ Permute

SpecPerm == PermInit /\ [][PermNext]_vars

(* C8: for every power-of-two N and every buffer x of length N, permute with
   the table built by permutationIndex leaves x'[i] = x[bitrev(i)], bitrev
   reversing the log2(N)-bit representation of i. *)
C8_PermuteIsBitReversal ==
  ppc = "permuted" =>
    \A i \in 0..(pN - 1) : px[i] = px0[bitrev(i, Log2(pN))]

C8_Witness == ppc = "permuted" /\ pN = 16 /\ px[1] = px0[8] /\ px[11] = px0[13]

(* C9: permutationIndex(N) has perm[0] = 0, perm[N-1] = N-1 and
   perm[i] = max(i, bitrev(i)) for every i, so that each pair {i, bitrev(i)}
   with i # bitrev(i) is exchanged exactly once by the ascending sweep
   i = 1 .. N-2; for N = 1, 2, 4, 8, 16 the tables are the literal ones of
   TestPermutationIndex. *)
C9_PermutationIndexTable ==
  ppc \in {"built", "permuted"} =>
    /\ DOMAIN pperm = 0..(pN - 1)
    /\ pperm[0] = 0
    /\ pperm[pN - 1] = pN - 1
    /\ \A i \in 0..(pN - 1) : pperm[i] = Max(i, bitrev(i, Log2(pN)))
    /\ \A i \in 0..(pN - 1) :
         i # bitrev(i, Log2(pN)) =>
           Cardinality({j \in 1..(pN - 2) :
                          pperm[j] # j /\ {j, pperm[j]} = {i, bitrev(i, Log2(pN))}}) = 1
    /\ pN <= 16 => pperm = TestTab(pN)

C9_Witness == ppc = "built" /\ pN = 16 /\ pperm[4] = 4 /\ pperm[11] = 13

(* ------------- SpecCache: concurrent Prepare and getVars -------------- *)

\* sync.RWMutex: a reader enters unless a writer holds or waits for the lock
CanRLock == prepareLock.writer = 0 /\ prepareLock.waiting = {}
CanLock(p) == prepareLock.writer = 0 /\ prepareLock.readers = {} /\ p \in prepareLock.waiting

\* a call starts: Prepare(N) directly, or getVars(x) with len(x) = N from FFT,
\* IFFT, FastConvolve or FastMultiConvolve; fft.go:25-27 is the first step
Call(p, o, N) ==
  /\ ~fatal
  /\ pc[p] = "idle"
  /\ op' = [op EXCEPT ![p] = o]
  /\ argN' = [argN EXCEPT ![p] = N]
  /\ IF IsPow2(N)
     THEN pc' = [pc EXCEPT ![p] = "rlock"] /\ err' = [err EXCEPT ![p] = "nil"]
     ELSE pc' = [pc EXCEPT ![p] = "p_ret"] /\ err' = [err EXCEPT ![p] = "error"]
  /\ UNCHANGED <<prepareLock, okv, got, stores, fatal, cacheVars, pver, permVars, utilVars, fftVars, convVars, fmcVars>>

\* fft.go:28 prepareLock.RLock()
PrepRLock(p) ==
  /\ ~fatal
  /\ pc[p] = "rlock"
  /\ CanRLock
  /\ prepareLock' = [prepareLock EXCEPT !.readers = @ \cup {p}]
  /\ pc' = [pc EXCEPT ![p] = "check"]
  /\ UNCHANGED <<op, argN, okv, err, got, stores, fatal, cacheVars, pver, permVars, utilVars, fftVars, convVars, fmcVars>>

\* fft.go:29 _, ok := factorsMap[N]; fft.go:209 _, ok := permMap[N]
PrepCheck(p) ==
  /\ ~fatal
  /\ pc[p] = "check"
  /\ okv' = [okv EXCEPT ![p] = argN[p] \in DOMAIN (IF pver = "tables" THEN factorsMap
                                                    ELSE permMap)]
  /\ pc' = [pc EXCEPT ![p] = "runlock"]
  /\ UNCHANGED <<prepareLock, op, argN, err, got, stores, fatal, cacheVars, pver, permVars, utilVars, fftVars, convVars, fmcVars>>

\* the return on the branch "already prepared" with the read lock still held
PrepRUnlockOnlyIfAbsent(p) ==
  /\ ~fatal
  /\ pc[p] = "runlock"
  /\ prepareLock' = [prepareLock EXCEPT !.readers = IF okv[p] THEN @ ELSE @ \ {p}]
  /\ pc' = [pc EXCEPT ![p] = IF okv[p] THEN "p_ret" ELSE "lock"]
  /\ UNCHANGED <<op, argN, okv, err, got, stores, fatal, cacheVars, pver, permVars, utilVars, fftVars, convVars, fmcVars>>

\* fft.go:30-34 prepareLock.RUnlock() on either branch
PrepRUnlock(p) ==
  /\ ~fatal
  /\ pc[p] = "runlock"
  /\ prepareLock' = [prepareLock EXCEPT !.readers = @ \ {p}]
  /\ pc' = [pc EXCEPT ![p] = IF okv[p] THEN "p_ret" ELSE "lock"]
  /\ UNCHANGED <<op, argN, okv, err, got, stores, fatal, cacheVars, pver, permVars, utilVars, fftVars, convVars, fmcVars>>

\* fft.go:35 prepareLock.Lock(): the writer announces itself ...
PrepLockWait(p) ==
  /\ ~fatal
  /\ pc[p] = "lock"
  /\ prepareLock' = [prepareLock EXCEPT !.waiting = @ \cup {p}]
  /\ pc' = [pc EXCEPT ![p] = "lockwait"]
  /\ UNCHANGED <<op, argN, okv, err, got, stores, fatal, cacheVars, pver, permVars, utilVars, fftVars, convVars, fmcVars>>

\* ... and enters once no reader and no writer holds the lock
PrepLock(p) ==
  /\ ~fatal
  /\ pc[p] = "lockwait"
  /\ CanLock(p)
  /\ prepareLock' = [prepareLock EXCEPT !.waiting = @ \ {p}, !.writer = p]
  /\ pc' = [pc EXCEPT ![p] = IF pver = "tables" THEN "store_f" ELSE "store_p"]
  /\ UNCHANGED <<op, argN, okv, err, got, stores, fatal, cacheVars, pver, permVars, utilVars, fftVars, convVars, fmcVars>>

\* fft.go:37 factorsMap[N] = roots(N)
PrepStoreFactors(p) ==
  /\ ~fatal
  /\ pc[p] = "store_f"
  /\ factorsMap' = mapPut(factorsMap, argN[p], roots(argN[p]))
  /\ stores' = [stores EXCEPT ![argN[p]] = @ + 1]
  /\ pc' = [pc EXCEPT ![p] = "store_p"]
  /\ UNCHANGED <<permMap, prepareLock, op, argN, okv, err, got, fatal, pver, permVars, utilVars, fftVars, convVars, fmcVars>>

\* fft.go:38 permMap[N] = permutationIndex(N)
PrepStorePerm(p) ==
  /\ ~fatal
  /\ pc[p] = "store_p"
  /\ permMap' = mapPut(permMap, argN[p], permutationIndex(argN[p]))
  /\ pc' = [pc EXCEPT ![p] = "unlock"]
  /\ UNCHANGED <<factorsMap, prepareLock, op, argN, okv, err, got, stores, fatal, pver, permVars, utilVars, fftVars, convVars, fmcVars>>

\* fft.go:36,39 the deferred prepareLock.Unlock() on return nil
PrepUnlock(p) ==
  /\ ~fatal
  /\ pc[p] = "unlock"
  /\ prepareLock' = [prepareLock EXCEPT !.writer = 0]
  /\ pc' = [pc EXCEPT ![p] = "p_ret"]
  /\ UNCHANGED <<op, argN, okv, err, got, stores, fatal, cacheVars, pver, permVars, utilVars, fftVars, convVars, fmcVars>>

\* Prepare returns: to its caller, or into getVars (fft.go:71-72)
PrepReturn(p) ==
  /\ ~fatal
  /\ pc[p] = "p_ret"
  /\ IF op[p] = "getVars"
     THEN pc' = [pc EXCEPT ![p] = "read_f"] /\ UNCHANGED <<op, argN, okv, err, convVars, fmcVars>>
     ELSE /\ pc' = [pc EXCEPT ![p] = "idle"]
          /\ op' = [op EXCEPT ![p] = "none"]
          /\ argN' = [argN EXCEPT ![p] = 0]
          /\ okv' = [okv EXCEPT ![p] = FALSE]
          /\ err' = [err EXCEPT ![p] = "nil"]
  /\ UNCHANGED <<prepareLock, got, stores, fatal, cacheVars, pver, permVars, utilVars, fftVars, convVars, fmcVars>>

\* a goroutine is inside the assignment to the map that p is about to read
WritingFactors(p) == \E q \in Procs \ {p} : pc[q] = "store_f"
WritingPerm(p) == \E q \in Procs \ {p} : pc[q] = "store_p"

\* fft.go:72 factors = factorsMap[N], with no lock held
GetFactors(p) ==
  /\ ~fatal
  /\ pc[p] = "read_f"
  /\ got' = [got EXCEPT ![p] = <<argN[p] \in DOMAIN factorsMap, FALSE>>]
  /\ pc' = [pc EXCEPT ![p] = "read_p"]
  /\ UNCHANGED <<prepareLock, op, argN, okv, err, stores, fatal, cacheVars, pver, permVars, utilVars, fftVars, convVars, fmcVars>>

\* fft.go:73 perm = permMap[N], with no lock held
GetPerm(p) ==
  /\ ~fatal
  /\ pc[p] = "read_p"
  /\ got' = [got EXCEPT ![p] = <<got[p][1], argN[p] \in DOMAIN permMap>>]
  /\ pc' = [pc EXCEPT ![p] = "g_ret"]
  /\ UNCHANGED <<prepareLock, op, argN, okv, err, stores, fatal, cacheVars, pver, permVars, utilVars, fftVars, convVars, fmcVars>>

\* an unsynchronised map read that overlaps a map write is a data race: the
\* read may go through (GetFactors, GetPerm) or the runtime detects it and
\* stops the program ("concurrent map read and map write")
RaceFatal(p) ==
  /\ ~fatal
  /\ \/ pc[p] = "read_f" /\ WritingFactors(p)
     \/ pc[p] = "read_p" /\ WritingPerm(p)
  /\ fatal' = TRUE
  /\ UNCHANGED <<prepareLock, pc, op, argN, okv, err, got, stores, cacheVars, pver, permVars, utilVars, fftVars, convVars, fmcVars>>

\* fft.go:74 and 48-52: getVars returns and the transform runs or fails
GetVarsReturn(p) ==
  /\ ~fatal
  /\ pc[p] = "g_ret"
  /\ pc' = [pc EXCEPT ![p] = "idle"]
  /\ op' = [op EXCEPT ![p] = "none"]
  /\ argN' = [argN EXCEPT ![p] = 0]
  /\ okv' = [okv EXCEPT ![p] = FALSE]
  /\ err' = [err EXCEPT ![p] = "nil"]
  /\ got' = [got EXCEPT ![p] = <<FALSE, FALSE>>]
  /\ UNCHANGED <<prepareLock, stores, fatal, cacheVars, pver, permVars, utilVars, fftVars, convVars, fmcVars>>

CacheInit == CacheIdle /\ LockIdle /\ PermIdle /\ UtilIdle /\ FftIdle /\ ConvIdle /\ FmcIdle

CacheNext ==
  \E p \in Procs :
    \/ \E o \in {"Prepare", "getVars"}, N \in CacheLens : Call(p, o, N)
    \/ PrepRLock(p)
    \/ PrepCheck(p)
    \/ PrepRUnlock(p)
    \/ PrepLockWait(p)
    \/ PrepLock(p)
    \/ PrepStoreFactors(p)
    \/ PrepStorePerm(p)
    \/ PrepUnlock(p)
    \/ PrepReturn(p)
    \/ GetFactors(p)
    \/ GetPerm(p)
    \/ RaceFatal(p)
    \/ GetVarsReturn(p)

SpecCache == CacheInit /\ [][CacheNext]_vars

(* C2: for any number of Prepare(N) calls running concurrently for the same
   power-of-two N that is not yet cached, at most one of them builds and
   stores the tables for N (the caller re-checks presence after taking the
   write lock). *)
C2_AtMostOneStore == \A N \in CacheLens : stores[N] <= 1

\* p reads a map while another goroutine, preparing another length, writes it
ReadOverlapsWrite(p) ==
  \E q \in Procs \ {p} :
    /\ argN[q] # argN[p]
    /\ \/ pc[p] = "read_f" /\ pc[q] = "store_f"
       \/ pc[p] = "read_p" /\ pc[q] = "store_p"

\* p holds prepareLock, for reading or for writing
HoldsLock(p) == p \in prepareLock.readers \/ prepareLock.writer = p

(* C3: in every interleaving of transforms with Prepare calls for other
   lengths, no read of the twiddle or permutation map by a transform happens
   while a Prepare call is writing that map, and every access to the maps is
   made while holding the read/write lock. *)
C3_NoReadDuringWrite ==
  /\ \A p \in Procs : ~ReadOverlapsWrite(p)
  /\ \A p \in Procs : pc[p] \in {"check", "store_f", "store_p", "read_f", "read_p"} => HoldsLock(p)

\* every cached length is a power of two and holds the tables built for it
TablesRight ==
  /\ \A N \in DOMAIN factorsMap : IsPow2(N) /\ factorsMap[N] = roots(N)
  /\ \A N \in DOMAIN permMap : IsPow2(N) /\ permMap[N] = permutationIndex(N)

\* no entry is removed or altered by a step
EntriesKept ==
  /\ \A N \in DOMAIN factorsMap : N \in DOMAIN factorsMap' /\ factorsMap'[N] = factorsMap[N]
  /\ \A N \in DOMAIN permMap : N \in DOMAIN permMap' /\ permMap'[N] = permMap[N]

\* a step adds at most the tables of a Prepare(N) that found N absent, N a
\* power of two
AddsOnlyPrepared ==
  \A N \in (DOMAIN factorsMap' \ DOMAIN factorsMap) \cup (DOMAIN permMap' \ DOMAIN permMap) :
    \E p \in Procs : argN[p] = N /\ IsPow2(N) /\ ~okv[p] /\ err[p] = "nil"
                     /\ pc[p] \in {"store_f", "store_p"}

(* C16: the cache only grows: Prepare(N) for a power-of-two N not yet cached
   adds exactly the twiddle table and the permutation table for N; Prepare(N)
   for a cached N or for a non-power-of-two N changes nothing (the latter
   returns an error); no entry is ever removed or altered; and in every state
   seen under the lock the two tables for a length are both present or both
   absent. *)
C16_CacheOnlyGrows ==
  /\ [](/\ TablesRight
        /\ prepareLock.writer = 0 => DOMAIN factorsMap = DOMAIN permMap
        /\ \A p \in Procs : (pc[p] # "idle" /\ ~IsPow2(argN[p])) => err[p] = "error"
        /\ \A p \in Procs : okv[p] => ~(pc[p] \in {"lock", "lockwait", "store_f", "store_p"}))
  /\ [][EntriesKept /\ AddsOnlyPrepared]_vars

C16_Witness ==
  /\ 2 \in DOMAIN factorsMap /\ 4 \in DOMAIN permMap /\ stores[4] = 1
  /\ \E p \in Procs : argN[p] = 3 /\ err[p] = "error" /\ pc[p] = "p_ret"
  /\ \E p \in Procs : argN[p] = 2 /\ okv[p] /\ pc[p] = "p_ret"

(* -------- SpecPrepare: concurrent Prepare calls under fair scheduling --- *)

PrepareVersions == {"tables", "fixedFactors"}

PrepareInit ==
  /\ CacheIdle /\ LockAtRest /\ pver \in PrepareVersions
  /\ PermIdle /\ UtilIdle /\ FftIdle /\ ConvIdle /\ FmcIdle

\* the steps of a Prepare call that goroutine p has started
PrepStep(p) ==
  \/ PrepRLock(p)
  \/ PrepCheck(p)
  \/ PrepRUnlock(p)
  \/ PrepLockWait(p)
  \/ PrepLock(p)
  \/ PrepStoreFactors(p)
  \/ PrepStorePerm(p)
  \/ PrepUnlock(p)
  \/ PrepReturn(p)

PrepareNext ==
  \E p \in Procs :
    \/ \E N \in CacheLens : Call(p, "Prepare", N)
    \/ PrepStep(p)

SpecPrepare == PrepareInit /\ [][PrepareNext]_vars

\* the scheduler runs every goroutine that can take a step, and the RWMutex
\* admits a goroutine blocked in RLock or Lock once the lock allows it
SpecPrepareLive == SpecPrepare /\ \A p \in Procs : WF_vars(PrepStep(p))

\* the goroutines whose Prepare call is between RLock and RUnlock, and
\* between Lock and the deferred Unlock
InsideRLock == {p \in Procs : pc[p] \in {"check", "runlock"}}
InsideLock == {p \in Procs : pc[p] \in {"store_f", "store_p", "unlock"}}

(* C29: every Prepare call of concurrently running goroutines, for valid and
   invalid lengths alike, eventually returns; the read lock is held exactly
   by the calls between RLock and RUnlock and the write lock exactly by the
   call between Lock and its deferred Unlock, so a call that returns holds
   neither, and the lock is free whenever no Prepare call is in progress. *)
C29_PrepareCallsReturn ==
  /\ [](/\ prepareLock.readers = InsideRLock
        /\ InsideLock = (IF prepareLock.writer = 0 THEN {} ELSE {prepareLock.writer})
        /\ (\A p \in Procs : pc[p] = "idle") => prepareLock = FreeLock)
  /\ \A p \in Procs : (pc[p] # "idle") ~> (pc[p] = "idle")

\* a call that found length 2 absent waits in Lock for a reader to leave
C29_Witness ==
  /\ prepareLock.waiting # {} /\ prepareLock.readers # {}
  /\ \E p \in Procs : argN[p] = 2 /\ pc[p] = "lockwait"

\* every call has returned after both valid lengths were prepared
C29_WitnessReturned ==
  /\ \A p \in Procs : pc[p] = "idle"
  /\ DOMAIN permMap = {2, 4}
  /\ prepareLock = FreeLock

(* ----------- the calls as one goroutine executes them ----------------- *)

\* fft.go Prepare, run by one goroutine: the error and the two maps after it
Prepare(N, fm, pm) ==
  IF ~IsPow2(N) THEN [err |-> "error", f |-> fm, p |-> pm]
  ELSE IF N \in DOMAIN fm THEN [err |-> "nil", f |-> fm, p |-> pm]
  ELSE [err |-> "nil", f |-> mapPut(fm, N, roots(N)),
        p |-> mapPut(pm, N, permutationIndex(N))]

\* fft.go getVars
getVars(xs, fm, pm) ==
  The({[N |-> len(xs), factors |-> mapGet(r.f, len(xs)), perm |-> mapGet(r.p, len(xs)),
        err |-> r.err, f |-> r.f, p |-> r.p] :
       r \in {Prepare(len(xs), fm, pm)}})

\* fft.go FFT
FFT(xs, fm, pm) ==
  The({[x |-> IF g.err # "nil" THEN xs ELSE fft(xs, g.N, g.factors, g.perm),
        err |-> g.err, f |-> g.f, p |-> g.p] :
       g \in {getVars(xs, fm, pm)}})

\* fft.go IFFT
IFFT(xs, fm, pm) ==
  The({[x |-> IF g.err # "nil" THEN xs ELSE ifft(xs, g.N, g.factors, g.perm),
        err |-> g.err, f |-> g.f, p |-> g.p] :
       g \in {getVars(xs, fm, pm)}})

\* fft.go:394-402 checkN: an error unless the tables for N are cached
checkN(N, fm) == IF N \notin DOMAIN fm THEN "error" ELSE "nil"

\* fft.go:433-439 getVars of the version that requires Prepare
getVarsChecked(xs, fm, pm) ==
  [N |-> len(xs), factors |-> mapGet(fm, len(xs)), perm |-> mapGet(pm, len(xs)),
   err |-> checkN(len(xs), fm), f |-> fm, p |-> pm]

\* fft.go:409-416 FFT of that version; its fft (442-473) computes x[i]+E2[k*s]*f
\* with E2[k] = -E[k] where the other computes x[i]-E[k*s]*f
FFTChecked(xs, fm, pm) ==
  The({[x |-> IF g.err # "nil" THEN xs ELSE fft(xs, g.N, g.factors, g.perm),
        err |-> g.err, f |-> g.f, p |-> g.p] :
       g \in {getVarsChecked(xs, fm, pm)}})

\* fft.go:423-430 IFFT of that version
IFFTChecked(xs, fm, pm) ==
  The({[x |-> IF g.err # "nil" THEN xs ELSE ifft(xs, g.N, g.factors, g.perm),
        err |-> g.err, f |-> g.f, p |-> g.p] :
       g \in {getVarsChecked(xs, fm, pm)}})

(* ------------- SpecFFT: Prepare, FFT, IFFT on one buffer -------------- *)

\* the error values: the dynamic type and the text Error() renders, as the
\* pieces the format string puts together
NoError == [type |-> "nil", text |-> << >>]

\* fmt.Errorf without %w returns an *errors.errorString
errorString(text) == [type |-> "errorString", text |-> text]

dimensionError(N) == errorString(<<"Input dimension must be power of 2, is: ", N>>)

notPreparedError(N) ==
  errorString(<<"FFT is not initialized for input dimension: ", N,
                ", must initialize with Prepare(N) first">>)

\* the value Prepare(N) returns; FFT and IFFT pass on what getVars got from it
prepareError(N) == IF IsPow2(N) THEN NoError ELSE dimensionError(N)

\* the value checkN(N) returns
checkNError(N, fm) ==
  IF N \in DOMAIN fm THEN NoError
  ELSE IF ~IsPow2(N) THEN dimensionError(N) ELSE notPreparedError(N)

\* the buffers handed to the calls: every length up to MaxBuf, 1+2i at one
\* index, i at another (or the same: 1+2i wins), zero elsewhere; the
\* README's sequence 1..8, and that sequence padded to 16 as Convolve pads it
BufA == CAdd(COne, CAdd(CI, CI))

\* the README's test array
Ramp == Mk([i \in 0..(RampLen - 1) |-> CInt(i + 1)], RampLen)

Bufs ==
  {[i \in 0..(L - 1) |-> IF i = p THEN BufA ELSE IF i = q THEN CI ELSE CZero] :
     L \in 0..MaxBuf, p \in 0..(MaxBuf - 1), q \in 0..(MaxBuf - 1)}
    \cup {Ramp, ZeroPad(Ramp, 2 * RampLen)}

FftInit ==
  /\ buf0 \in Bufs
  /\ buf = buf0
  /\ bufPrev = buf0
  /\ calls = << >>
  /\ ferr = "nil"
  /\ ferrv = NoError
  /\ fftver \in {"builds", "checks"}
  /\ CacheIdle /\ LockIdle /\ PermIdle /\ UtilIdle /\ ConvIdle /\ FmcIdle

DoPrepare ==
  /\ Len(calls) < MaxCalls
  /\ \E N \in {len(buf), len(buf) + 1} :
     \E r \in {Prepare(N, factorsMap, permMap)} :
       /\ factorsMap' = r.f
       /\ permMap' = r.p
       /\ ferr' = r.err
       /\ ferrv' = prepareError(N)
       /\ calls' = Append(calls, "Prepare")
  /\ bufPrev' = buf
  /\ UNCHANGED <<buf, buf0, fftver, permVars, utilVars, lockVars, convVars, fmcVars>>

DoFFT ==
  /\ Len(calls) < MaxCalls
  /\ \E r \in {IF fftver = "checks" THEN FFTChecked(buf, factorsMap, permMap)
              ELSE FFT(buf, factorsMap, permMap)} :
       /\ buf' = r.x
       /\ factorsMap' = r.f
       /\ permMap' = r.p
       /\ ferr' = r.err
  /\ ferrv' = IF fftver = "checks" THEN checkNError(len(buf), factorsMap)
            ELSE prepareError(len(buf))
  /\ bufPrev' = buf
  /\ calls' = Append(calls, "FFT")
  /\ UNCHANGED <<buf0, fftver, permVars, utilVars, lockVars, convVars, fmcVars>>

DoIFFT ==
  /\ Len(calls) < MaxCalls
  /\ \E r \in {IF fftver = "checks" THEN IFFTChecked(buf, factorsMap, permMap)
              ELSE IFFT(buf, factorsMap, permMap)} :
       /\ buf' = r.x
       /\ factorsMap' = r.f
       /\ permMap' = r.p
       /\ ferr' = r.err
  /\ ferrv' = IF fftver = "checks" THEN checkNError(len(buf), factorsMap)
            ELSE prepareError(len(buf))
  /\ bufPrev' = buf
  /\ calls' = Append(calls, "IFFT")
  /\ UNCHANGED <<buf0, fftver, permVars, utilVars, lockVars, convVars, fmcVars>>

FftNext == DoPrepare \/ DoFFT \/ DoIFFT

SpecFFT == FftInit /\ [][FftNext]_vars

Last(sq) == sq[Len(sq)]

(* C1: FFT and IFFT called on a buffer whose length is not a power of two
   (length 0 included) return an error and leave every element of the buffer
   as it was before the call. *)
C1_BadLengthRejected ==
  (calls # << >> /\ Last(calls) \in {"FFT", "IFFT"} /\ ~(len(bufPrev) \in {1, 2, 4, 8, 16}))
    => (ferr = "error" /\ buf = bufPrev)

C1_Witness ==
  /\ calls = <<"IFFT">>
  /\ len(bufPrev) = 5
  /\ bufPrev[1] # bufPrev[4]
  /\ ferr = "error"

(* C15: FFT and IFFT on a buffer of power-of-two length N succeed without
   any earlier Prepare(N) call: the call builds the tables for N when they
   are absent, and after it returns the cache holds the tables for N. *)
C15_NoPrepareNeeded ==
  (calls # << >> /\ Last(calls) \in {"FFT", "IFFT"} /\ IsPow2(len(bufPrev))) =>
    /\ ferr = "nil"
    /\ len(bufPrev) \in DOMAIN factorsMap /\ len(bufPrev) \in DOMAIN permMap
    /\ factorsMap[len(bufPrev)] = roots(len(bufPrev))
    /\ permMap[len(bufPrev)] = permutationIndex(len(bufPrev))

\* the test's slowFFT: y[k] += x[n] * exp(-2 pi i k n / N); N divides RingOrder
RECURSIVE slowSum(_, _, _)
slowSum(x, k, n) ==
  IF n >= len(x) THEN CZero
  ELSE CAdd(CMul(x[n], WPow(k * n * (RingOrder \div len(x)))), slowSum(x, k, n + 1))

slowFFT(x) == Mk([k \in 0..(len(x) - 1) |-> slowSum(x, k, 0)], len(x))

\* every call before the last two is a Prepare
OnlyPrepareBefore(sq) == \A j \in 1..(Len(sq) - 2) : sq[j] = "Prepare"

(* C17: for a buffer x of power-of-two length, FFT followed by IFFT, both
   returning no error, leaves the buffer equal to x; for the sequence
   1, 2, .., 8 the result is 1, 2, .., 8. *)
C17_RoundTrip ==
  (/\ Len(calls) >= 2
   /\ calls[Len(calls) - 1] = "FFT" /\ Last(calls) = "IFFT"
   /\ OnlyPrepareBefore(calls)
   /\ IsPow2(len(buf0))
   /\ ferr = "nil") => buf = buf0

C17_Witness ==
  /\ calls = <<"FFT", "IFFT">>
  /\ ferr = "nil"
  /\ buf0 = Ramp
  /\ bufPrev[0] = CInt(36)
  /\ bufPrev[4] = CInt(-4)
  /\ buf = Ramp

(* C18: a call of FFT that returns no error on a buffer x of power-of-two
   length N leaves in the buffer the discrete Fourier transform of x,
   X[k] = sum over n of x[n] * w^(k*n) with w = cos(2 pi / N) - i sin(2 pi / N),
   the value the direct O(N^2) sum gives. *)
C18_FFTIsDFT ==
  (calls # << >> /\ Last(calls) = "FFT" /\ IsPow2(len(bufPrev)) /\ ferr = "nil")
    => buf = slowFFT(bufPrev)

C18_Witness ==
  /\ calls = <<"FFT">>
  /\ ferr = "nil"
  /\ len(bufPrev) = 8
  /\ bufPrev[1] = BufA /\ bufPrev[3] = CI
  /\ buf[0] = CAdd(BufA, CI)
  /\ buf[2] # buf[6]

C18_WitnessAfterPrepare ==
  /\ fftver = "checks"
  /\ calls = <<"Prepare", "FFT">>
  /\ ferr = "nil"
  /\ len(bufPrev) = 4
  /\ bufPrev[1] = BufA
  /\ buf[1] = CMul(BufA, WPow(RingOrder \div 4))

\* the butterflies of the stage with sub-block size n
StageOps(ops, n) == {k \in DOMAIN ops : ops[k].op = "bfly" /\ ops[k].n = n}

(* C21: a call of FFT on a buffer of power-of-two length N >= 8 runs the
   general path: exactly log2(N) stages, with sub-block sizes 1, 2, .., N/2 in
   that order; in every stage each index of the buffer is in exactly one
   butterfly pair (i, i+n), with i+n < N; and every twiddle index k*(N/2n)
   lies in [0, N/2), inside the table of N/2 entries. *)
C21_ButterflyStructure ==
  (calls # << >> /\ Last(calls) = "FFT" /\ ferr = "nil" /\ len(bufPrev) >= 8) =>
    \A N \in {len(bufPrev)} : \A ops \in {opsStages(N, 1, N)} :
      /\ Len(ops) = Log2(N) * (N \div 2)
      /\ {ops[k].n : k \in DOMAIN ops} = {Pow2(e) : e \in 0..(Log2(N) - 1)}
      /\ \A k \in 1..(Len(ops) - 1) : ops[k].n <= ops[k + 1].n
      /\ \A k \in DOMAIN ops :
           /\ ops[k].j = ops[k].i + ops[k].n
           /\ ops[k].i >= 0 /\ ops[k].j < N
           /\ ops[k].w = (ops[k].i % ops[k].n) * (N \div (2 * ops[k].n))
           /\ ops[k].w >= 0 /\ ops[k].w < N \div 2
           /\ ops[k].w \in DOMAIN factorsMap[N]
      /\ len(factorsMap[N]) = N \div 2
      /\ \A e \in 0..(Log2(N) - 1) : \A x \in 0..(N - 1) :
           Cardinality({k \in StageOps(ops, Pow2(e)) : x \in {ops[k].i, ops[k].j}}) = 1
      /\ buf = replay(permute(bufPrev, permMap[N], N), factorsMap[N], ops, 1)

C21_Witness ==
  /\ calls = <<"FFT">>
  /\ ferr = "nil"
  /\ bufPrev = ZeroPad(Ramp, 2 * RampLen)
  /\ buf[0] = CInt(36)
  /\ Len(opsStages(16, 1, 16)) = 32

C21_WitnessEight ==
  /\ calls = <<"Prepare", "FFT">>
  /\ ferr = "nil"
  /\ len(bufPrev) = 8
  /\ bufPrev[5] = BufA
  /\ buf # bufPrev

\* an operation that can change the buffer: not an exchange of x[i] with itself
Moves(t) == ~(t.op = "swap" /\ t.i = t.j)

(* C22: for N = 1, 2 and 4 the closed forms of fft perform the exchanges and
   butterflies of the general path (permute with the cached table, then the
   loop nest), in the same order and with the same twiddle entries, an
   exchange of an element with itself not counted; both leave the same
   buffer. *)
C22_ShortcutsAreGeneralPath ==
  (calls # << >> /\ Last(calls) = "FFT" /\ ferr = "nil" /\ len(bufPrev) \in {1, 2, 4}) =>
    \A N \in {len(bufPrev)} :
      /\ opsShortcut(N) = SelectSeq(opsGeneral(N, permMap[N]), Moves)
      /\ buf = replay(bufPrev, factorsMap[N], opsShortcut(N), 1)
      /\ buf = replay(bufPrev, factorsMap[N], opsGeneral(N, permMap[N]), 1)
      /\ buf = stages(permute(bufPrev, permMap[N], N), N, factorsMap[N], 1, N)

C22_Witness ==
  /\ calls = <<"FFT">>
  /\ ferr = "nil"
  /\ len(bufPrev) = 4
  /\ bufPrev[1] = BufA /\ bufPrev[2] = CI
  /\ buf[1] = CNeg(CAdd(CMul(CI, BufA), CI))
  /\ Len(opsGeneral(4, permMap[4])) = 6
  /\ Len(opsShortcut(4)) = 5

(* C19: every error that Prepare, FFT and IFFT return is an InputSizeError,
   whose text is "Size of <name> must be <shape>, is: <value>". *)
C19_ErrorsAreInputSizeError ==
  (calls # << >> /\ ferr # "nil") =>
    /\ ferrv.type = "InputSizeError"
    /\ Len(ferrv.text) = 6
    /\ ferrv.text[1] = "Size of "
    /\ ferrv.text[3] = " must be "
    /\ ferrv.text[5] = ", is: "

(* ------------- the convolution calls (convolve.go) -------------------- *)

\* copy(X[off:], seg)
Put(X, off, seg) ==
  The({Mk([k \in DOMAIN u |-> IF k >= off /\ k < off + len(v) THEN v[k - off] ELSE u[k]],
          len(u)) :
       u \in {X}, v \in {seg}})

\* The memory of a call is the sequence h of the arrays that exist, a slice
\* being the address of its array; the caller's arrays come first.

\* ZeroPad that pads the array at a where it lies and returns it
ZeroPadInPlace(h, a, N) == [h |-> [h EXCEPT ![a] = ZeroPad(h[a], N)], a |-> a]

\* utils.go ZeroPad on the memory h: y := make([]complex128, N); copy(y, x)
\* leaves a new array at a new address
ZeroPadNew(h, a, N) == [h |-> Append(h, ZeroPad(h[a], N)), a |-> Len(h) + 1]

\* FastConvolve without the comparison of the two lengths
FastConvolveNoLenCheck(x, y, fm, pm) ==
  IF len(x) = 0 /\ len(y) = 0 THEN [x |-> x, y |-> y, err |-> "nil", f |-> fm, p |-> pm]
  ELSE The({IF g.err # "nil"
            THEN [x |-> x, y |-> y, err |-> g.err, f |-> g.f, p |-> g.p]
            ELSE The({[x |-> c[1], y |-> c[2], err |-> "nil", f |-> g.f, p |-> g.p] :
                      c \in {convolve(x, ZeroPad(y, g.N), g.N, g.factors, g.perm)}}) :
            g \in {getVars(x, fm, pm)}})

\* FastConvolve without the early return for two empty buffers
FastConvolveNoEmptyCheck(x, y, fm, pm) ==
  IF len(x) # len(y) THEN [x |-> x, y |-> y, err |-> "error", f |-> fm, p |-> pm]
  ELSE The({IF g.err # "nil"
            THEN [x |-> x, y |-> y, err |-> g.err, f |-> g.f, p |-> g.p]
            ELSE The({[x |-> c[1], y |-> c[2], err |-> "nil", f |-> g.f, p |-> g.p] :
                      c \in {convolve(x, y, g.N, g.factors, g.perm)}}) :
            g \in {getVars(x, fm, pm)}})

\* FastConvolve: x, y, the error and the cache after the call
FastConvolve(x, y, fm, pm) ==
  IF len(x) = 0 /\ len(y) = 0 THEN [x |-> x, y |-> y, err |-> "nil", f |-> fm, p |-> pm]
  ELSE IF len(x) # len(y) THEN [x |-> x, y |-> y, err |-> "error", f |-> fm, p |-> pm]
  ELSE The({IF g.err # "nil"
            THEN [x |-> x, y |-> y, err |-> g.err, f |-> g.f, p |-> g.p]
            ELSE The({[x |-> c[1], y |-> c[2], err |-> "nil", f |-> g.f, p |-> g.p] :
                      c \in {convolve(x, y, g.N, g.factors, g.perm)}}) :
            g \in {getVars(x, fm, pm)}})

\* convolve(x, x, ..) on one array: it is transformed twice, and every
\* x[i] *= y[i] is overwritten by y[i] = 0 before ifft runs
convolveSame(x, N, factors, perm) ==
  The({ifft(zeroTo(mulInto(ff, ff, N), N), N, factors, perm) :
       ff \in {fft(fft(x, N, factors, perm), N, factors, perm)}})

\* FastConvolve on the slices at ax and ay: the memory, the error and the
\* cache after the call
FastConvolveAt(h, ax, ay, fm, pm) ==
  The({IF ax # ay
       THEN [h |-> [h EXCEPT ![ax] = r.x, ![ay] = r.y], err |-> r.err, f |-> r.f, p |-> r.p]
       ELSE IF r.err # "nil" \/ len(h[ax]) = 0
       THEN [h |-> h, err |-> r.err, f |-> r.f, p |-> r.p]
       ELSE [h |-> [h EXCEPT ![ax] = convolveSame(h[ax], len(h[ax]),
                                                  r.f[len(h[ax])], r.p[len(h[ax])])],
             err |-> r.err, f |-> r.f, p |-> r.p] :
       r \in {FastConvolve(h[ax], h[ay], fm, pm)}})

\* Convolve on the slices at ax and ay: the returned slice x[:n] of the padded
\* copy, the error, the cache and the memory after the call
Convolve(h, ax, ay, fm, pm) ==
  IF len(h[ax]) = 0 /\ len(h[ay]) = 0
  THEN [ret |-> Nil, err |-> "nil", f |-> fm, p |-> pm, h |-> h]
  ELSE The({The({The({The({[ret |-> Slice(r.h[x.a], 0, n), err |-> r.err,
                            f |-> r.f, p |-> r.p, h |-> r.h] :
                           r \in {FastConvolveAt(y.h, x.a, y.a, fm, pm)}}) :
                      y \in {ZeroPadNew(x.h, ay, N)}}) :
                 x \in {ZeroPadNew(h, ax, N)}}) :
            n \in {len(h[ax]) + len(h[ay]) - 1},
            N \in {NextPow2(len(h[ax]) + len(h[ay]) - 1)}})

\* the test's slowConvolve: r[i+j] += x[i] * y[j]
RECURSIVE slowTerm(_, _, _, _)
slowTerm(x, y, k, i) ==
  IF i >= len(x) THEN CZero
  ELSE IF k - i >= 0 /\ k - i < len(y)
       THEN CAdd(CMul(x[i], y[k - i]), slowTerm(x, y, k, i + 1))
       ELSE slowTerm(x, y, k, i + 1)

slowConvolve(x, y) ==
  IF len(x) = 0 /\ len(y) = 0 THEN Nil
  ELSE Mk([k \in 0..(len(x) + len(y) - 2) |-> slowTerm(x, y, k, 0)], len(x) + len(y) - 1)

\* the same with the second block left as it was
convolveAtKeepY(X, i, n, factors, perm) ==
  The({Put(u, i, c[1]) :
       u \in {X},
       c \in {convolve(Slice(X, i, i + n), Slice(X, i + n, i + 2 * n), n, factors, perm)}})

\* X after convolve(X[i:i+n], X[i+n:i+n2], n, factors, perm)
convolveAt(X, i, n, factors, perm) ==
  The({Put(Put(u, i, c[1]), i + n, c[2]) :
       u \in {X},
       c \in {convolve(Slice(X, i, i + n), Slice(X, i + n, i + 2 * n), n, factors, perm)}})

\* FastMultiConvolve, the pair loop of one level run by the caller itself:
\* convolve(X[i:i+n], X[i+n:i+n2]) for i = 0, n2, 2*n2, ..
RECURSIVE pairLoop(_, _, _, _, _)
pairLoop(X, n, factors, perm, i) ==
  The({IF i >= len(u) THEN u
       ELSE pairLoop(convolveAt(u, i, n, factors, perm), n, factors, perm, i + 2 * n) :
       u \in {X}})

\* FastMultiConvolve, the level loop "for ; n != N; n <<= 1"
RECURSIVE levelLoop(_, _, _, _)
levelLoop(X, n, fm, pm) ==
  The({IF n = len(u) THEN [x |-> u, err |-> "nil", f |-> fm, p |-> pm]
       ELSE The({IF g.err # "nil"
                 THEN [x |-> u, err |-> g.err, f |-> g.f, p |-> g.p]
                 ELSE levelLoop(pairLoop(u, n, g.factors, g.perm, 0), 2 * n, g.f, g.p) :
                 g \in {getVars(Slice(u, 0, n), fm, pm)}}) :
       u \in {X}})

\* FastMultiConvolve(X, n, false): X, the error and the cache after the call;
\* N%n with n = 0 is an integer division by zero, a run-time panic
FastMultiConvolve(X, n, fm, pm) ==
  IF n = 0 THEN [x |-> X, err |-> "panic", f |-> fm, p |-> pm]
  ELSE IF len(X) % n # 0 \/ ~IsPow2(n) \/ ~IsPow2(len(X) \div n)
       THEN [x |-> X, err |-> "error", f |-> fm, p |-> pm]
       ELSE levelLoop(X, n, fm, pm)

\* x[:rl] as a call's result; slicing past the end of x is a run-time panic
sliceTo(x, rl, e, fm, pm) ==
  IF rl > len(x) THEN [ret |-> Nil, err |-> "panic", f |-> fm, p |-> pm]
  ELSE [ret |-> Slice(x, 0, rl), err |-> e, f |-> fm, p |-> pm]

\* the packing with the blocks after the last array left at zero
packNoOnes(arrays, N, n2) ==
  Mk([k \in 0..(n2 * N - 1) |->
        IF k \div N < Len(arrays) THEN arrays[(k \div N) + 1][k % N] ELSE CZero], n2 * N)

\* multiConvolveSingleLevel, the packing: the arrays side by side, 1, 0, 0, ..
\* in every block after the last array
pack(arrays, N, n2) ==
  Mk([k \in 0..(n2 * N - 1) |->
        IF k \div N < Len(arrays)
        THEN arrays[(k \div N) + 1][k % N]
        ELSE IF k % N = 0 THEN COne ELSE CZero], n2 * N)

\* the memory after convolve(x, y, N, factors, perm) on the slices at ax and ay
convolveIn(h, ax, ay, N, factors, perm) ==
  The({[u EXCEPT ![ax] = c[1], ![ay] = c[2]] :
       u \in {h}, c \in {convolve(h[ax], h[ay], N, factors, perm)}})

\* the arrays that the slices as[1], as[2], .. stand for
deref(h, as) == The({[j \in 1..Len(as) |-> u[as[j]]] : u \in {h}})

\* a result together with the memory it leaves
withMem(r, h) == [ret |-> r.ret, err |-> r.err, f |-> r.f, p |-> r.p, h |-> h]

\* multiConvolveSingleLevel on the slices `arrays`: two are convolved where
\* they lie, more are copied into data := make([]complex128, n2*N)
multiConvolveSingleLevel(h, arrays, N, factors, perm, returnLength, fm, pm) ==
  IF Len(arrays) = 2
  THEN The({withMem(sliceTo(u[arrays[1]], returnLength, "nil", fm, pm), u) :
            u \in {convolveIn(h, arrays[1], arrays[2], N, factors, perm)}})
  ELSE IF Len(arrays) = 1
  THEN withMem(sliceTo(h[arrays[1]], returnLength, "nil", fm, pm), h)
  ELSE The({withMem(IF r.err = "panic"
                    THEN [ret |-> Nil, err |-> "panic", f |-> r.f, p |-> r.p]
                    ELSE sliceTo(r.x, returnLength, r.err, r.f, r.p),
                    Append(h, r.x)) :
            r \in {FastMultiConvolve(pack(deref(h, arrays), N, NextPow2(Len(arrays))),
                                     N, fm, pm)}})

\* the padded length without the doubling
paddedLengthTight(x) == NextPow2(len(x))

\* n := NextPow2(2 * len(x)): twice the length, as room for convolve to write to
paddedLength(x) == NextPow2(2 * len(x))

\* MultiConvolve, first loop: every x, the slice at k, padded into the bucket
\* of its length
RECURSIVE fillLoop(_, _, _)
fillLoop(X, k, st) ==
  The({IF k > Len(X) THEN t
       ELSE The({fillLoop(X, k + 1,
                   [abl |-> mapPut(t.abl, n, Append(mapGetL(t.abl, n), z.a)),
                    mx |-> Max(t.mx, n),
                    rl |-> t.rl + len(X[k]) - 1,
                    h |-> z.h]) :
                 z \in {ZeroPadNew(t.h, k, n)}}) :
       t \in {st}, n \in {IF k > Len(X) THEN 0 ELSE paddedLength(X[k])}})

\* a result together with the way taken to it and the memory it leaves
withPath(r, via, path, h) ==
  [ret |-> r.ret, err |-> r.err, f |-> r.f, p |-> r.p,
   via |-> via, visited |-> path.visited, raised |-> path.raised, h |-> h]

\* the loop over i finds bucket i populated, among `buckets` populated ones,
\* holding `arrays`
visit(path, i, abl, h) ==
  [visited |-> Append(path.visited,
                      [i |-> i, buckets |-> Cardinality(DOMAIN abl),
                       arrays |-> deref(h, abl[i])]),
   raised |-> path.raised]

\* the blocks X[q*n : (q+1)*n] that FastMultiConvolve(X, n, false) holds at the
\* start of each of its levels
RECURSIVE levelBlocks(_, _, _, _)
levelBlocks(X, n, fm, pm) ==
  IF n >= len(X) THEN {}
  ELSE The({{Slice(X, q * n, (q + 1) * n) : q \in 0..((len(X) \div n) - 1)} \cup
            levelBlocks(pairLoop(X, n, g.factors, g.perm, 0), 2 * n, g.f, g.p) :
            g \in {getVars(Slice(X, 0, n), fm, pm)}})

\* MultiConvolve, the loop over j: convolve the pairs of bucket i into bucket 2i;
\* raised records that the branch 2*i > mx was taken
RECURSIVE mergeLoop(_, _, _, _, _, _, _)
mergeLoop(arrays, j, i, N, factors, perm, st) ==
  The({IF j >= Len(arrays) THEN t
       ELSE The({mergeLoop(arrays, j + 2, i, N, factors, perm,
                   [abl |-> mapPut(t.abl, 2 * i, Append(mapGetL(t.abl, 2 * i), z.a)),
                    mx |-> Max(t.mx, 2 * i),
                    raised |-> t.raised \/ 2 * i > t.mx,
                    h |-> z.h]) :
                 z \in {ZeroPadNew(IF j + 1 < Len(arrays)
                                   THEN convolveIn(t.h, arrays[j + 1], arrays[j + 2],
                                                   N, factors, perm)
                                   ELSE t.h,
                                   arrays[j + 1], 2 * i)}}) :
       t \in {st}})

\* MultiConvolve, the loop over i = 1, 2, 4, .. <= mx and the final return
RECURSIVE bucketLoop(_, _, _, _, _, _, _, _)
bucketLoop(i, abl, mx, returnLength, fm, pm, path, h) ==
  The({IF i > mx
       THEN withPath(IF Len(mapGetL(m, mx)) = 0
                     THEN [ret |-> Nil, err |-> "panic", f |-> fm, p |-> pm]
                     ELSE sliceTo(h[m[mx][1]], returnLength, "nil", fm, pm),
                     "afterLoop", path, h)
       ELSE IF Len(mapGetL(m, i)) = 0
       THEN bucketLoop(2 * i, mapDel(m, i), mx, returnLength, fm, pm, path, h)
       ELSE The({IF g.err # "nil"
                 THEN withPath([ret |-> Nil, err |-> g.err, f |-> g.f, p |-> g.p],
                               "error", visit(path, i, m, h), h)
                 ELSE IF Cardinality(DOMAIN m) = 1
                 THEN The({withPath(r, "single", visit(path, i, m, h), r.h) :
                           r \in {multiConvolveSingleLevel(h, m[i], g.N, g.factors,
                                                           g.perm, returnLength,
                                                           g.f, g.p)}})
                 ELSE The({bucketLoop(2 * i, mapDel(t.abl, i), t.mx, returnLength,
                                      g.f, g.p,
                                      [visited |-> visit(path, i, m, h).visited,
                                       raised |-> t.raised],
                                      t.h) :
                           t \in {mergeLoop(m[i], 0, i, g.N, g.factors, g.perm,
                                            [abl |-> m, mx |-> mx,
                                             raised |-> path.raised, h |-> h])}}) :
                 g \in {getVars(h[m[i][1]], fm, pm)}}) :
       m \in {abl}})

\* MultiConvolve(X...): the returned slice, the error and the cache after the
\* call, and the way taken
MultiConvolve(X, fm, pm) ==
  The({IF t.rl <= 0
       THEN withPath([ret |-> Nil, err |-> "nil", f |-> fm, p |-> pm], "empty",
                     [visited |-> << >>, raised |-> FALSE], t.h)
       ELSE bucketLoop(1, t.abl, t.mx, t.rl, fm, pm,
                       [visited |-> << >>, raised |-> FALSE], t.h) :
       t \in {fillLoop(X, 1, [abl |-> EmptyMap, mx |-> 1, rl |-> 1, h |-> X])}})

(* --------- SpecConv: Convolve and FastConvolve on two buffers --------- *)

\* the values the sequences hold: 1 and -2+i
ConvVals == {COne, CSub(CI, CInt(2))}

\* the README's output for Convolve(testArray, testArray)
RampSquared ==
  Slice0(<<CInt(1), CInt(4), CInt(10), CInt(20), CInt(35), CInt(56), CInt(84),
           CInt(120), CInt(147), CInt(164), CInt(170), CInt(164), CInt(145),
           CInt(112), CInt(64)>>)

ConvSeqs == UNION {[0..(L - 1) -> ConvVals] : L \in 0..MaxLen} \cup {Ramp}

\* the buffer lengths FastConvolve is given padded operands of
PadLens == {1, 2, 4, 8}

\* two buffers of one power-of-two length N, zero-padded for at least half
\* their length, as TestFastConvolve and Convolve prepare them
PaddedPairs ==
  UNION {{<<ZeroPad(a, N), ZeroPad(b, N)>> :
            a, b \in {q \in ConvSeqs : 2 * len(q) <= N}} : N \in PadLens}

ConvInit ==
  /\ \E pr \in (ConvSeqs \X ConvSeqs) \cup PaddedPairs : cx0 = pr[1] /\ cy0 = pr[2]
  /\ cx = cx0
  /\ cy = cy0
  /\ mX = << >>
  /\ cop = "none"
  /\ cret = Nil
  /\ cerr = "nil"
  /\ mpath = [via |-> "none", visited |-> << >>, raised |-> FALSE]
  /\ csame = FALSE /\ mXa = << >>
  /\ CacheIdle /\ LockIdle /\ PermIdle /\ UtilIdle /\ FftIdle /\ FmcIdle

\* r, err := Convolve(x, y), or r, err := Convolve(x, x) when the two hold the
\* same: the caller's slices are then read again
DoConvolve ==
  /\ cop = "none"
  /\ \E same \in {b \in BOOLEAN : b => cx = cy} :
     \E ay \in {IF same THEN 1 ELSE 2} :
     \E r \in {Convolve(IF same THEN <<cx>> ELSE <<cx, cy>>, 1, ay,
                        factorsMap, permMap)} :
       /\ csame' = same
       /\ cx' = Slice(r.h[1], 0, len(cx))
       /\ cy' = Slice(r.h[ay], 0, len(cy))
       /\ cret' = r.ret
       /\ cerr' = r.err
       /\ factorsMap' = r.f
       /\ permMap' = r.p
  /\ cop' = "Convolve"
  /\ UNCHANGED <<cx0, cy0, mX, mpath, mXa,
                 permVars, utilVars, lockVars, fftVars, fmcVars>>

\* err := FastConvolve(x, y): the result is left in x, y is erased
DoFastConvolve ==
  /\ cop = "none"
  /\ \E r \in {FastConvolve(cx, cy, factorsMap, permMap)} :
       /\ cx' = r.x
       /\ cy' = r.y
       /\ cerr' = r.err
       /\ factorsMap' = r.f
       /\ permMap' = r.p
  /\ cop' = "FastConvolve"
  /\ UNCHANGED <<cx0, cy0, mX, cret, mpath, csame, mXa,
                 permVars, utilVars, lockVars, fftVars, fmcVars>>

ConvNext == DoConvolve \/ DoFastConvolve

SpecConv == ConvInit /\ [][ConvNext]_vars

(* C6: FastConvolve(x, y) returns an error when len(x) # len(y) or when the
   common length is a non-zero non-power-of-two, and then x and y are both
   unchanged. *)
C6_FastConvolveRejects ==
  (cop = "FastConvolve" /\ (len(cx0) # len(cy0) \/ ~(len(cx0) \in {0, 1, 2, 4, 8, 16})))
    => (cerr = "error" /\ cx = cx0 /\ cy = cy0)

C6_Witness ==
  /\ cop = "FastConvolve" /\ len(cx0) = 3 /\ len(cy0) = 3 /\ cx0[0] # cx0[1]
  /\ cerr = "error"

\* the non-zero entries of x lie in its first len(x)/2 positions
HalfZero(x) == \A k \in DOMAIN x : k >= len(x) \div 2 => x[k] = CZero

(* C12: after a successful FastConvolve(x, y) on two buffers of equal
   power-of-two length N whose non-zero entries lie in their first N/2
   positions, every entry of y is zero, the first N-1 entries of x hold the
   linear convolution of the original x and y, and the rest of x is zero. *)
C12_FastConvolveResult ==
  (/\ cop = "FastConvolve" /\ len(cx0) = len(cy0) /\ IsPow2(len(cx0))
   /\ HalfZero(cx0) /\ HalfZero(cy0)) =>
    /\ cerr = "nil"
    /\ len(cx) = len(cx0) /\ len(cy) = len(cy0)
    /\ \A k \in DOMAIN cy : cy[k] = CZero
    /\ \A k \in DOMAIN cx :
         cx[k] = IF k < len(cx0) - 1 THEN slowConvolve(cx0, cy0)[k] ELSE CZero

C12_Witness ==
  /\ cop = "FastConvolve" /\ len(cx0) = 8 /\ len(cy0) = 8
  /\ HalfZero(cx0) /\ HalfZero(cy0) /\ cx0[2] # CZero /\ cy0[2] # CZero
  /\ cy0[0] # cy0[1] /\ cx[4] # CZero /\ cy = ZeroPad(Nil, 8) /\ cerr = "nil"

(* C27: FastConvolve called with two empty buffers returns no error and
   changes nothing: both buffers are still empty and no table has been added
   to the cache, although 0 is not a power of two. *)
C27_EmptyFastConvolve ==
  (cop = "FastConvolve" /\ len(cx0) = 0 /\ len(cy0) = 0) =>
    /\ cerr = "nil"
    /\ cx = cx0 /\ cy = cy0
    /\ factorsMap = EmptyMap /\ permMap = EmptyMap
    /\ ~IsPow2(len(cx0))

C27_Witness ==
  /\ cop = "FastConvolve" /\ cx0 = Nil /\ cy0 = Nil /\ cerr = "nil" /\ cx = Nil

(* C10: Convolve(x, y) returns no error and the direct linear convolution
   r[k] = sum over i+j=k of x[i]*y[j], of length len(x)+len(y)-1; an empty
   result for two empty inputs. *)
C10_ConvolveIsLinearConvolution ==
  cop = "Convolve" =>
    /\ cerr = "nil"
    /\ cret = slowConvolve(cx0, cy0)
    /\ (len(cx0) = 0 /\ len(cy0) = 0) => len(cret) = 0
    /\ (len(cx0) + len(cy0) > 0) => len(cret) = len(cx0) + len(cy0) - 1
    /\ \A k \in DOMAIN cret : cret[k] = slowTerm(cx0, cy0, k, 0)
    /\ (cx0 = Ramp /\ cy0 = Ramp) => cret = RampSquared

C10_Witness ==
  /\ cop = "Convolve" /\ cx0 = Ramp /\ cy0 = Ramp /\ len(cret) = 15
  /\ cret[14] = CInt(64) /\ cerr = "nil"

\* an empty operand: the result has length len(y) - 1 and holds zeros
C10_WitnessEmptyOperand ==
  /\ cop = "Convolve" /\ len(cx0) = 0 /\ len(cy0) = 3 /\ len(cret) = 2
  /\ cret[1] = CZero /\ cerr = "nil"

(* ------------- SpecMulti: MultiConvolve on a list of sequences -------- *)

\* the sequences: every length up to MaxSeqLen, all ones or -2+i followed by ones
MultiSeqs ==
  {[k \in 0..(L - 1) |-> IF k < z THEN CSub(CI, CInt(2)) ELSE COne] :
     L \in 0..MaxSeqLen, z \in 0..1}

\* the argument lists: up to MaxSeqs sequences, of which the first two may
\* start with -2+i and the others are all ones
MultiLists ==
  {X \in UNION {[1..m -> MultiSeqs] : m \in 0..MaxSeqs} :
     \A k \in DOMAIN X : (k > 2 /\ len(X[k]) > 0) => X[k][0] = COne}

MultiInit ==
  /\ mX \in MultiLists
  /\ cx = Nil /\ cy = Nil /\ cx0 = Nil /\ cy0 = Nil
  /\ cop = "none"
  /\ cret = Nil
  /\ cerr = "nil"
  /\ mpath = [via |-> "none", visited |-> << >>, raised |-> FALSE]
  /\ csame = FALSE /\ mXa = << >>
  /\ CacheIdle /\ LockIdle /\ PermIdle /\ UtilIdle /\ FftIdle /\ FmcIdle

\* r, err := MultiConvolve(X...)
DoMultiConvolve ==
  /\ cop = "none"
  /\ \E r \in {MultiConvolve(mX, factorsMap, permMap)} :
       /\ cret' = r.ret
       /\ cerr' = r.err
       /\ factorsMap' = r.f
       /\ permMap' = r.p
       /\ mpath' = [via |-> r.via, visited |-> r.visited, raised |-> r.raised]
       /\ mXa' = [k \in 1..Len(mX) |-> Slice(r.h[k], 0, len(mX[k]))]
  /\ cop' = "MultiConvolve"
  /\ UNCHANGED <<cx, cy, cx0, cy0, mX, csame,
                 permVars, utilVars, lockVars, fftVars, fmcVars>>

MultiNext == DoMultiConvolve

SpecMulti == MultiInit /\ [][MultiNext]_vars

(* C7: MultiConvolve called with zero sequences, or with one empty sequence,
   returns an empty result and no error; it never indexes an empty bucket. *)
C7_NoSequencesGiveEmpty ==
  (cop = "MultiConvolve" /\ (Len(mX) = 0 \/ (Len(mX) = 1 /\ len(mX[1]) = 0)))
    => (cerr = "nil" /\ len(cret) = 0)

\* the test's slowMultiConvolve: m = [1], then m = slowConvolve(m, x) for every x
RECURSIVE slowMultiConvolve(_, _)
slowMultiConvolve(X, k) ==
  IF k = 0 THEN Slice0(<<COne>>)
  ELSE slowConvolve(slowMultiConvolve(X, k - 1), X[k])

\* 1 + sum over the first k sequences of len(x) - 1
RECURSIVE foldLength(_, _)
foldLength(X, k) == IF k = 0 THEN 1 ELSE foldLength(X, k - 1) + len(X[k]) - 1

(* C25: for every non-empty list of sequences with a positive result length
   1 + sum(len(x) - 1), the bucket loop of MultiConvolve finds the populated
   buckets in ascending length and returns through multiConvolveSingleLevel,
   which it enters at the first bucket it finds with no other bucket
   populated and not before; it never raises mx (2*i > mx) and never reaches
   the return after the loop. *)
C25_ReturnsThroughSingleLevel ==
  (cop = "MultiConvolve" /\ Len(mX) > 0 /\ foldLength(mX, Len(mX)) > 0) =>
    /\ mpath.via = "single"
    /\ ~mpath.raised
    /\ Len(mpath.visited) >= 1
    /\ \A k \in 1..(Len(mpath.visited) - 1) :
         /\ mpath.visited[k].i < mpath.visited[k + 1].i
         /\ mpath.visited[k].buckets > 1
    /\ mpath.visited[Len(mpath.visited)].buckets = 1
    /\ \A k \in 1..Len(mX) :
         NextPow2(2 * len(mX[k])) <= mpath.visited[Len(mpath.visited)].i
    /\ cerr = "nil"

\* sequences of lengths 0, 1 and 2: buckets 1, 2 and 4, merged upwards
C25_Witness ==
  /\ cop = "MultiConvolve" /\ Len(mX) = 3
  /\ len(mX[1]) = 2 /\ len(mX[2]) = 0 /\ len(mX[3]) = 1
  /\ mpath.via = "single"
  /\ [k \in 1..Len(mpath.visited) |-> <<mpath.visited[k].i, mpath.visited[k].buckets>>]
       = <<<<1, 3>>, <<2, 2>>, <<4, 1>>>>
  /\ len(cret) = 1

\* convolve on two entries of length L gives the linear convolution, which
\* ends before position L-1
NoWrap(a, b) ==
  \A L \in {len(a)} : \A c \in {slowConvolve(a, b)} :
    /\ convolve(a, b, L, roots(L), permutationIndex(L))[1] = Slice(c, 0, L)
    /\ \A k \in DOMAIN c : k >= L - 1 => c[k] = CZero

(* C26: at every step of MultiConvolve, and at every level of the
   FastMultiConvolve call it hands over to, every entry held at padded
   length L has its non-zero entries in its first L/2 positions, so the
   convolution of two entries at length L has at most L-1 entries and does
   not wrap around. *)
C26_EntriesFillHalf ==
  cop = "MultiConvolve" =>
    \A k \in DOMAIN mpath.visited : \A v \in {mpath.visited[k]} :
      /\ \A j \in DOMAIN v.arrays : len(v.arrays[j]) = v.i /\ HalfZero(v.arrays[j])
      /\ (v.buckets > 1 \/ Len(v.arrays) = 2) =>
           \A j \in DOMAIN v.arrays :
             (j % 2 = 1 /\ j + 1 <= Len(v.arrays)) => NoWrap(v.arrays[j], v.arrays[j + 1])
      /\ (v.buckets = 1 /\ Len(v.arrays) > 2) =>
           \A b \in levelBlocks(pack(v.arrays, v.i, NextPow2(Len(v.arrays))), v.i,
                                  EmptyMap, EmptyMap) : HalfZero(b)

\* a pair merged from bucket 2 into bucket 4, where the third entry waits
C26_Witness ==
  /\ cop = "MultiConvolve" /\ Len(mX) = 3 /\ cerr = "nil"
  /\ len(mX[1]) = 1 /\ len(mX[2]) = 1 /\ len(mX[3]) = 2
  /\ mX[1][0] = CSub(CI, CInt(2)) /\ mX[2][0] = COne
  /\ Len(mpath.visited) = 2
  /\ Len(mpath.visited[1].arrays) = 2 /\ mpath.visited[1].buckets = 2
  /\ Len(mpath.visited[2].arrays) = 2
  /\ mpath.visited[2].arrays[2][0] = CSub(CI, CInt(2))
  /\ mpath.visited[2].arrays[2][2] = CZero

\* three entries of one length, packed for FastMultiConvolve
C26_WitnessPacked ==
  /\ cop = "MultiConvolve" /\ Len(mX) = 3 /\ cerr = "nil"
  /\ \A k \in 1..3 : len(mX[k]) = 2
  /\ Len(mpath.visited) = 1 /\ Len(mpath.visited[1].arrays) = 3
  /\ Cardinality(levelBlocks(pack(mpath.visited[1].arrays, 4, 4), 4, EmptyMap, EmptyMap)) >= 3

Ones(n) == Mk([i \in 0..(n - 1) |-> COne], n)

(* C11: for every non-empty list of non-empty sequences, MultiConvolve returns
   the left-to-right fold of the list with pairwise linear convolution
   starting from [1], of length exactly 1 + sum(len(x) - 1);
   MultiConvolve([1,1],[1,1],[1]) = [1,2,1]. *)
C11_MultiConvolveIsFold ==
  (cop = "MultiConvolve" /\ Len(mX) > 0 /\ \A k \in 1..Len(mX) : len(mX[k]) > 0) =>
    /\ cerr = "nil"
    /\ cret = slowMultiConvolve(mX, Len(mX))
    /\ len(cret) = foldLength(mX, Len(mX))
    /\ mX = <<Ones(2), Ones(2), Ones(1)>> => cret = Slice0(<<CInt(1), CInt(2), CInt(1)>>)

C11_Witness ==
  /\ cop = "MultiConvolve" /\ mX = <<Ones(2), Ones(2), Ones(1)>>
  /\ cret = Slice0(<<CInt(1), CInt(2), CInt(1)>>) /\ cerr = "nil"

\* three sequences of one length: the single-level path through FastMultiConvolve
C11_WitnessSingleLevel ==
  /\ cop = "MultiConvolve" /\ Len(mX) = 3 /\ \A k \in 1..3 : len(mX[k]) = 2
  /\ len(cret) = 4 /\ cerr = "nil"

(* ---- SpecInputs: Convolve or MultiConvolve and the caller's sequences -- *)

\* the caller holds two sequences for Convolve or a list for MultiConvolve
InputsInit ==
  \/ ConvInit
  \/ MultiInit

InputsNext == DoConvolve \/ DoMultiConvolve

SpecInputs == InputsInit /\ [][InputsNext]_vars

(* C28: Convolve and MultiConvolve leave every sequence passed to them as it
   was: all writes go to the copies that ZeroPad makes, also when Convolve
   is handed one slice as both operands. *)
C28_InputsNotModified ==
  /\ cop = "Convolve" => (cx = cx0 /\ cy = cy0)
  /\ cop = "MultiConvolve" => mXa = mX

\* Convolve(x, x) on two non-empty entries, the result differing from x
C28_Witness ==
  /\ cop = "Convolve" /\ csame /\ len(cx0) = 2 /\ cx0[0] # cx0[1]
  /\ cerr = "nil" /\ len(cret) = 3 /\ cret[0] # cx0[0] /\ cx = cx0

\* MultiConvolve that convolved a pair of its padded copies in bucket 2
C28_WitnessMulti ==
  /\ cop = "MultiConvolve" /\ Len(mX) = 3 /\ cerr = "nil"
  /\ len(mX[1]) = 1 /\ len(mX[2]) = 1 /\ len(mX[3]) = 2
  /\ Len(mpath.visited) = 2 /\ len(cret) = 2
  /\ mXa = mX

(* ------- SpecFMC: FastMultiConvolve, the caller and its goroutines ----- *)

\* two blocks of four, (-2+i, 1) and (1, 1) padded with zeros to twice their
\* length
HalfBlocks ==
  Slice0(<<CSub(CI, CInt(2)), COne, CZero, CZero, COne, COne, CZero, CZero>>)

\* the buffers: every length up to MaxFmc, blocks of two holding (1, 0), the
\* first block (-2+i, 0) in every second buffer; and HalfBlocks
FmcBufs ==
  {[k \in 0..(L - 1) |->
      IF k % 2 = 1 THEN CZero ELSE IF k < 2 * z THEN CSub(CI, CInt(2)) ELSE COne] :
     L \in 0..MaxFmc, z \in 0..1} \cup {HalfBlocks}

FmcInit ==
  /\ fX0 \in FmcBufs
  /\ fX = fX0
  /\ fn0 \in 0..MaxFmc
  /\ fn = fn0
  /\ fmt \in BOOLEAN
  /\ fver \in {"perPair", "perCPU"}
  /\ fcpu \in IF fver = "perCPU" /\ fmt THEN 1..MaxCPU ELSE {0}
  /\ fpc = "call"
  /\ fi = 0
  /\ ftasks = {}
  /\ fwg = 0
  /\ fres = "none"
  /\ fstarted = 0
  /\ fspawned = 0
  /\ flog = << >>
  /\ CacheIdle /\ LockIdle /\ PermIdle /\ UtilIdle /\ FftIdle /\ ConvIdle

\* what a call never writes: the arguments as given, the version, NumCPU
fmcFixed == <<fX0, fn0, fmt, fver, fcpu>>

\* the count of calls with one more call of convolve on the pair at i, size n
logged(log, n, i) ==
  IF <<n, i>> \in DOMAIN log THEN [log EXCEPT ![<<n, i>>] = @ + 1]
  ELSE log @@ (<<n, i>> :> 1)

\* the tables convolve uses for blocks of length n: version perPair takes them
\* from getVars(X[:n]) (part_002:213), version perCPU's convolve(x, y) looks
\* them up itself (part_002:414-422)
fmcFactors(n) == IF fver = "perPair" THEN mapGet(factorsMap, n) ELSE roots(n)
fmcPerm(n) == IF fver = "perPair" THEN mapGet(permMap, n) ELSE permutationIndex(n)

\* part_002:202-211: N%n panics for n = 0; the three shape checks
FmcValidate ==
  /\ fpc = "call"
  /\ IF fn = 0 THEN fres' = "panic"
     ELSE IF len(fX) % fn # 0 \/ ~IsPow2(fn) \/ ~IsPow2(len(fX) \div fn)
          THEN fres' = "error"
          ELSE fres' = fres
  /\ fpc' = IF fres' = "none" THEN "level" ELSE "done"
  /\ UNCHANGED <<fX, fn, fi, ftasks, fwg, fstarted, fspawned, fmcFixed, flog,
                 cacheVars, permVars, utilVars, lockVars, fftVars, convVars>>

\* part_002:212-218: the loop test n != N, getVars(X[:n]), n2 := n << 1, a new
\* WaitGroup, i := 0; part_002:387-391 in version perCPU (no getVars)
FmcLevel ==
  /\ fpc = "level"
  /\ IF fn = len(fX)
     THEN /\ fres' = "nil"
          /\ fpc' = "done"
          /\ UNCHANGED <<fi, fspawned, cacheVars>>
     ELSE IF fver = "perPair"
     THEN \E g \in {getVars(Slice(fX, 0, fn), factorsMap, permMap)} :
            /\ factorsMap' = g.f
            /\ permMap' = g.p
            /\ fres' = IF g.err # "nil" THEN "error" ELSE fres
            /\ fpc' = IF g.err # "nil" THEN "done" ELSE "spawn"
            /\ fi' = 0
            /\ fspawned' = 0
     ELSE /\ fpc' = "spawn"
          /\ fi' = 0
          /\ fspawned' = 0
          /\ UNCHANGED <<fres, cacheVars>>
  /\ UNCHANGED <<fX, fn, ftasks, fwg, fstarted, fmcFixed, flog,
                 permVars, utilVars, lockVars, fftVars, convVars>>

\* part_002:219-225: wg.Add(1); go func(i) {..}(i); i += n2
FmcSpawn ==
  /\ fpc = "spawn" /\ fmt /\ fver = "perPair" /\ fi < len(fX)
  /\ fwg' = fwg + 1
  /\ fspawned' = fspawned + 1
  /\ ftasks' = ftasks \cup {[i |-> fi, k |-> fn, st |-> "new", n |-> 0, pos |-> 0]}
  /\ fi' = fi + 2 * fn
  /\ UNCHANGED <<fX, fn, fpc, fres, fstarted, fmcFixed, flog,
                 cacheVars, permVars, utilVars, lockVars, fftVars, convVars>>

\* part_002:392-394: for j := 0; j < NumCPU; j++ { wg.Add(1); go func(j) {..}(j) }
FmcSpawnCPU ==
  /\ fpc = "spawn" /\ fmt /\ fver = "perCPU" /\ fi < fcpu
  /\ fwg' = fwg + 1
  /\ fspawned' = fspawned + 1
  /\ ftasks' = ftasks \cup {[i |-> fi, k |-> fn, st |-> "new", n |-> 0, pos |-> 0]}
  /\ fi' = fi + 1
  /\ UNCHANGED <<fX, fn, fpc, fres, fstarted, fmcFixed, flog,
                 cacheVars, permVars, utilVars, lockVars, fftVars, convVars>>

\* part_002:226-228 (405-407): the pair convolved by the caller itself; i += n2
FmcInline ==
  /\ fpc = "spawn" /\ ~fmt /\ fi < len(fX)
  /\ fX' = convolveAt(fX, fi, fn, fmcFactors(fn), fmcPerm(fn))
  /\ flog' = logged(flog, fn, fi)
  /\ fstarted' = fstarted + 1
  /\ fi' = fi + 2 * fn
  /\ UNCHANGED <<fn, fpc, ftasks, fwg, fres, fspawned, fmcFixed,
                 cacheVars, permVars, utilVars, lockVars, fftVars, convVars>>

\* part_002:219 (392, 405): the loop over i, or over j, ends
FmcSpawnEnd ==
  /\ fpc = "spawn"
  /\ IF fmt /\ fver = "perCPU" THEN fi >= fcpu ELSE fi >= len(fX)
  /\ fpc' = "wait"
  /\ UNCHANGED <<fX, fn, fi, ftasks, fwg, fres, fstarted, fspawned, fmcFixed, flog,
                 cacheVars, permVars, utilVars, lockVars, fftVars, convVars>>

\* wg.Wait() returns at once
WaitSkipped == TRUE

\* part_002:230 (403): wg.Wait() returns when the counter is zero
WaitDone == fwg = 0

\* part_002:230, 212: wg.Wait(), then the loop's n <<= 1
FmcWait ==
  /\ fpc = "wait"
  /\ WaitDone
  /\ fn' = 2 * fn
  /\ fpc' = "level"
  /\ UNCHANGED <<fX, fi, ftasks, fwg, fres, fstarted, fspawned, fmcFixed, flog,
                 cacheVars, permVars, utilVars, lockVars, fftVars, convVars>>

\* the loop variable shared by the closures instead of passed to each
taskOffsetShared(t) == fi

\* part_002:222, 225: go func(i int) {..}(i), the goroutine's own copy of i
taskOffset(t) == t.i

\* every goroutine's range starting at the first pair
rangeStartZero(j, k) == 0

\* the range of goroutine j without its last pair
rangeEndShort(j, k) == ((j + 1) * (len(fX) \div (2 * k))) \div fcpu - 1

\* part_002:396-397: s and e, the range of pairs of goroutine j
rangeStart(j, k) == (j * (len(fX) \div (2 * k))) \div fcpu
rangeEnd(j, k) == ((j + 1) * (len(fX) \div (2 * k))) \div fcpu

\* part_002:222-224 (395-397): a goroutine starts; its closure reads the
\* caller's n
FmcTaskStart(t) ==
  /\ fres # "panic"
  /\ t \in ftasks /\ t.st = "new"
  /\ ftasks' = (ftasks \ {t}) \cup
       {[t EXCEPT !.st = "run", !.n = fn,
                  !.pos = IF fver = "perCPU" THEN rangeStart(t.i, t.k) ELSE 0]}
  /\ fstarted' = fstarted + 1
  /\ UNCHANGED <<fX, fn, fpc, fi, fwg, fres, fspawned, fmcFixed, flog,
                 cacheVars, permVars, utilVars, lockVars, fftVars, convVars>>

\* part_002:398-400: one turn of the goroutine's loop over its pairs; a slice
\* expression with low > high is a run-time panic
FmcTaskStep(t) ==
  /\ fres # "panic"
  /\ fver = "perCPU"
  /\ t \in ftasks /\ t.st = "run" /\ t.pos < rangeEnd(t.i, t.k)
  /\ IF fn = t.k
     THEN /\ fX' = convolveAt(fX, t.pos * 2 * t.k, t.k, fmcFactors(t.k), fmcPerm(t.k))
          /\ flog' = logged(flog, t.k, t.pos * 2 * t.k)
          /\ fres' = fres
     ELSE /\ fX' = fX
          /\ flog' = flog
          /\ fres' = "panic"
  /\ ftasks' = (ftasks \ {t}) \cup {[t EXCEPT !.pos = t.pos + 1]}
  /\ UNCHANGED <<fn, fpc, fi, fwg, fstarted, fspawned, fmcFixed,
                 cacheVars, permVars, utilVars, lockVars, fftVars, convVars>>

\* part_002:223-224: convolve returns, the deferred wg.Done() runs; a slice
\* expression past the end of X is a run-time panic.  part_002:395, 398: the
\* goroutine's loop ends and wg.Done() runs
FmcTaskFinish(t) ==
  /\ fres # "panic"
  /\ t \in ftasks /\ t.st = "run"
  /\ IF fver = "perCPU"
     THEN /\ t.pos >= rangeEnd(t.i, t.k)
          /\ UNCHANGED <<fX, fres, flog>>
     ELSE IF t.n = t.k /\ taskOffset(t) + 2 * t.n <= len(fX)
     THEN /\ fX' = convolveAt(fX, taskOffset(t), t.n, fmcFactors(t.k), fmcPerm(t.k))
          /\ flog' = logged(flog, t.n, taskOffset(t))
          /\ fres' = fres
     ELSE /\ fX' = fX
          /\ flog' = flog
          /\ fres' = "panic"
  /\ ftasks' = ftasks \ {t}
  /\ fwg' = fwg - 1
  /\ UNCHANGED <<fn, fpc, fi, fstarted, fspawned, fmcFixed,
                 cacheVars, permVars, utilVars, lockVars, fftVars, convVars>>

FmcNext ==
  \/ FmcValidate
  \/ FmcLevel
  \/ FmcSpawn
  \/ FmcSpawnCPU
  \/ FmcInline
  \/ FmcSpawnEnd
  \/ FmcWait
  \/ \E t \in ftasks : FmcTaskStart(t)
  \/ \E t \in ftasks : FmcTaskStep(t)
  \/ \E t \in ftasks : FmcTaskFinish(t)

SpecFMC == FmcInit /\ [][FmcNext]_vars

\* the scheduler runs a goroutine that can take a step
SpecFMCLive == FmcInit /\ [][FmcNext]_vars /\ WF_vars(FmcNext)

(* C4: with multithread true every level is a barrier: while a goroutine
   spawned for block size n has not finished, n is not doubled and no pair
   convolution of the level with block size 2n starts. *)
C4_LevelIsBarrier ==
  /\ \A t \in ftasks : t.k = fn
  /\ fpc = "level" => (ftasks = {} /\ fwg = 0)

C4_Witness ==
  /\ fmt /\ fn0 = 2 /\ fn = 4 /\ len(fX) = 8
  /\ \E t \in ftasks : t.st = "run" /\ t.n = 4

\* the shapes FastMultiConvolve must reject
BadShape(L, b) == b = 0 \/ L % b # 0 \/ ~IsPow2(b) \/ ~IsPow2(L \div b)

(* C5: for every buffer length L >= 0 and blockLength b >= 0 with b not
   dividing L, b not a power of two or L/b not a power of two (b = 0
   included), FastMultiConvolve returns an error, starts no task and leaves
   the buffer unchanged; the failure is never a fatal one. *)
C5_BadShapeIsReturnedError ==
  BadShape(len(fX0), fn0) =>
    /\ fres # "panic"
    /\ fstarted = 0 /\ ftasks = {}
    /\ fX = fX0
    /\ fpc = "done" => fres = "error"

\* the part of X a goroutine works on: its pair, or its range of pairs
taskLo(t) == IF fver = "perCPU" THEN rangeStart(t.i, t.k) * 2 * t.k ELSE t.i
taskHi(t) == IF fver = "perCPU" THEN rangeEnd(t.i, t.k) * 2 * t.k ELSE t.i + 2 * t.k

(* C13: for every valid (buffer, blockLength), FastMultiConvolve run with
   multithread true and with multithread false on identical copies of the
   input leaves the two buffers equal, in every interleaving of the
   goroutines: the call returns nil with X equal to the result of the
   sequential run, and no two unfinished goroutines share a part of X. *)
C13_ConcurrentEqualsSequential ==
  /\ \A t, u \in ftasks : t # u => (taskHi(t) <= taskLo(u) \/ taskHi(u) <= taskLo(t))
  /\ (fpc = "done" /\ ~BadShape(len(fX0), fn0)) =>
       /\ fres = "nil"
       /\ fX = FastMultiConvolve(fX0, fn0, EmptyMap, EmptyMap).x

C13_Witness ==
  /\ fpc = "done" /\ fmt /\ fres = "nil" /\ len(fX0) = 8 /\ fn0 = 2
  /\ fX0[0] = CSub(CI, CInt(2)) /\ fX0[2] = COne
  /\ fX = ZeroPad(Slice0(<<CSub(CI, CInt(2))>>), 8)

\* the same under the version with NumCPU goroutines per level
C13_WitnessPerCPU ==
  /\ C13_Witness /\ fver = "perCPU" /\ fcpu = 2

(* C14: with multithread true, the number of goroutines started at a level
   never exceeds the number of block pairs of the level,
   len(X) / (2 * block size), the last level with its single pair included. *)
C14_TasksAtMostPairs ==
  (fmt /\ fpc \in {"spawn", "wait"}) => fspawned <= len(fX) \div (2 * fn)

\* the block sizes of the levels and the pairs convolved, for a buffer of
\* length L in blocks of length b
LevelSizes(L, b) == {b * Pow2(e) : e \in 0..(Log2(L \div b) - 1)}
LevelPairs(L, b) ==
  {<<n, 2 * n * q>> : n \in LevelSizes(L, b), q \in 0..(L \div 2)} \cap
  {pr \in (1..L) \X (0..L) : pr[2] + 2 * pr[1] <= L}

(* C23: a FastMultiConvolve call on m = len(X)/n blocks that passes the
   shape checks terminates; it runs log2(m) levels, with block sizes
   n, 2n, .., len(X)/2; at each level every adjacent pair of blocks is
   convolved exactly once, and nothing else is; with m = 1 no convolution
   runs and the buffer is unchanged. *)
C23_TerminatesAfterLogLevels ==
  /\ [](~BadShape(len(fX0), fn0) =>
          /\ \A pr \in DOMAIN flog :
               flog[pr] = 1 /\ pr \in LevelPairs(len(fX0), fn0) /\ pr[1] <= fn
          /\ fpc = "done" =>
               /\ fres = "nil"
               /\ fn = len(fX0)
               /\ DOMAIN flog = LevelPairs(len(fX0), fn0)
               /\ Cardinality({pr[1] : pr \in DOMAIN flog}) = Log2(len(fX0) \div fn0)
               /\ len(fX0) = fn0 => (flog = << >> /\ fX = fX0))
  /\ (fpc = "call" /\ ~BadShape(len(fX0), fn0)) ~> (fpc = "done")

C23_Witness ==
  /\ fpc = "done" /\ fres = "nil" /\ fmt
  /\ len(fX0) = 8 /\ fn0 = 2
  /\ DOMAIN flog = {<<2, 0>>, <<2, 4>>, <<4, 0>>}
  /\ fX # fX0

C23_WitnessOneBlock ==
  /\ fpc = "done" /\ fres = "nil"
  /\ len(fX0) = 4 /\ fn0 = 4 /\ fX0[0] = CSub(CI, CInt(2))
  /\ flog = << >> /\ fX = fX0

\* the indices of X a goroutine reads and writes
TaskIndices(t) == taskLo(t)..(taskHi(t) - 1)

\* the goroutines whose range [s, e) holds pair q, at block size k
Owners(q, k) == {j \in 0..(fcpu - 1) : rangeStart(j, k) <= q /\ q < rangeEnd(j, k)}

(* C24: with multithread true, at every level with P pairs and C goroutines,
   the ranges [j*P/C, (j+1)*P/C) of the goroutines j = 0..C-1 follow one
   another, are pairwise disjoint and cover 0..P-1; each pair is convolved
   by exactly one goroutine, and no two unfinished goroutines read or write a
   common index of X. *)
C24_RangesPartitionPairs ==
  (fmt /\ fpc \in {"spawn", "wait"} /\ ~BadShape(len(fX0), fn0)) =>
    \A P \in {len(fX) \div (2 * fn)} :
      /\ fver = "perCPU" =>
           /\ rangeStart(0, fn) = 0
           /\ rangeEnd(fcpu - 1, fn) = P
           /\ \A j \in 0..(fcpu - 1) : rangeStart(j, fn) <= rangeEnd(j, fn)
           /\ \A j \in 0..(fcpu - 2) : rangeEnd(j, fn) = rangeStart(j + 1, fn)
           /\ \A q \in 0..(P - 1) : Cardinality(Owners(q, fn)) = 1
           /\ \A t \in ftasks : t.i \in 0..(fcpu - 1)
      /\ \A t \in ftasks : taskLo(t) >= 0 /\ taskHi(t) <= len(fX)
      /\ \A t, u \in ftasks : t # u => TaskIndices(t) \cap TaskIndices(u) = {}
      /\ \A q \in 0..(P - 1) :
           /\ <<fn, 2 * fn * q>> \in DOMAIN flog => flog[<<fn, 2 * fn * q>>] = 1
           /\ (fpc = "wait" /\ fwg = 0) => <<fn, 2 * fn * q>> \in DOMAIN flog

\* four pairs shared by three goroutines: ranges [0, 1), [1, 2), [2, 4)
C24_Witness ==
  /\ fmt /\ fver = "perCPU" /\ fcpu = 3
  /\ fpc = "wait" /\ fwg = 0
  /\ len(fX) = 8 /\ fn = 1
  /\ rangeEnd(0, 1) = 1 /\ rangeEnd(1, 1) = 2 /\ rangeEnd(2, 1) = 4
  /\ DOMAIN flog = {<<1, 0>>, <<1, 2>>, <<1, 4>>, <<1, 6>>}

C24_WitnessPerPair ==
  /\ fmt /\ fver = "perPair"
  /\ fpc = "wait" /\ len(fX) = 8 /\ fn = 2
  /\ Cardinality(ftasks) = 2
  /\ \E t \in ftasks : t.st = "run" /\ TaskIndices(t) = 4..7

\* the block of length n at offset i
Block(X, i, n) == Slice(X, i, i + n)

\* the sequences that X holds in the first halves of its blocks of length n
BlockData(X, n) ==
  [q \in 1..(len(X) \div n) |-> Slice(X, (q - 1) * n, (q - 1) * n + n \div 2)]

(* C30: after a FastMultiConvolve call on m >= 2 blocks that returned nil,
   every position of the second half of the buffer is zero; while a level
   runs, the second block of every pair convolved so far is zero; and for
   blocks that are zero-padded for half their length the convolution of
   the blocks' sequences lies at the start of the buffer and every position
   after it is zero. *)
C30_RestIsZero ==
  /\ (~BadShape(len(fX0), fn0) /\ fres # "panic") =>
       \A pr \in DOMAIN flog :
         pr[1] = fn => Block(fX, pr[2] + pr[1], pr[1]) = ZeroPad(Nil, pr[1])
  /\ (fpc = "done" /\ fres = "nil" /\ len(fX0) >= 2 * fn0) =>
       /\ \A k \in DOMAIN fX : k >= len(fX) \div 2 => fX[k] = CZero
       /\ (fn0 >= 2 /\ \A q \in 0..((len(fX0) \div fn0) - 1) :
                         HalfZero(Block(fX0, q * fn0, fn0))) =>
            \A r \in {slowMultiConvolve(BlockData(fX0, fn0), len(fX0) \div fn0)} :
              /\ Slice(fX, 0, len(r)) = r
              /\ \A k \in DOMAIN fX : k >= len(r) => fX[k] = CZero

\* two blocks of four: (-2+i, 1) * (1, 1) = (-2+i, -1+i, 1), then five zeros
C30_Witness ==
  /\ fpc = "done" /\ fres = "nil" /\ fX0 = HalfBlocks /\ fn0 = 4 /\ fmt
  /\ fX = ZeroPad(Slice0(<<CSub(CI, CInt(2)), CSub(CI, COne), COne>>), 8)

\* two blocks of four with entries in their second halves: the convolution
\* wraps around, and the second half of the buffer is zero all the same
C30_WitnessFullBlocks ==
  /\ fpc = "done" /\ fres = "nil" /\ len(fX0) = 8 /\ fn0 = 4
  /\ fX0[2] # CZero /\ fX0[6] # CZero
  /\ fX[2] # CZero /\ fX[6] = CZero

(* ------------- SpecUtil: NextPow2 on 64-bit integers ------------------ *)

\* a Go int is 64 bits wide; a non-negative one is the set of its one bits
IntBits == 64

\* TestNextPow2 goes up to 1 << 62
MaxExp == 62

LowBit(S) == CHOOSE b \in S : \A c \in S : b <= c

HighBit(S) == CHOOSE b \in S : \A c \in S : b >= c

\* N -= 1, for N > 0
Dec(S) == The({(S \ {b}) \cup 0..(b - 1) : b \in {LowBit(S)}})

\* N + 1, wrapping at 64 bits
Inc(S) ==
  IF S = 0..(IntBits - 1) THEN {}
  ELSE The({(S \ 0..(b - 1)) \cup {b} : b \in {LowBit((0..(IntBits - 1)) \ S)}})

\* N >> k
ShrWide(S, k) == {b - k : b \in {c \in S : c >= k}}

\* N |= N >> k
OrShrWide(S, k) == S \cup ShrWide(S, k)

\* 1 << n
ShlOne(n) == IF n < IntBits THEN {n} ELSE {}

\* bits.Len64: the number of bits needed to write N
Len64(S) == IF S = {} THEN 0 ELSE HighBit(S) + 1

\* utils.go NextPow2: shifts by 1, 2, 4, 8, 16
NextPow2Shifts(S) ==
  IF S = {} THEN {0}
  ELSE Inc(OrShrWide(OrShrWide(OrShrWide(OrShrWide(OrShrWide(Dec(S), 1), 2), 4), 8), 16))

\* NextPow2 as 1 << bits.Len64(N-1)
NextPow2Len64(S) == IF S = {} THEN {0} ELSE ShlOne(Len64(Dec(S)))

\* the arguments: 0, 2^k, 2^k + 2^m and 2^(k+1) - 1, none above 2^MaxExp
WideInputs ==
  {{}} \cup {{k} : k \in 0..MaxExp}
       \cup {{k, m} : k \in 1..(MaxExp - 1), m \in 0..(MaxExp - 2)}
       \cup {0..k : k \in 1..(MaxExp - 1)}

UtilInit ==
  /\ uN \in {S \in WideInputs : S = {} \/ HighBit(S) < MaxExp \/ S = {MaxExp}}
  /\ ures = {}
  /\ uver \in {"shifts", "bitlen"}
  /\ upc = "new"
  /\ CacheIdle /\ LockIdle /\ PermIdle /\ FftIdle /\ ConvIdle /\ FmcIdle

DoNextPow2 ==
  /\ upc = "new"
  /\ ures' = IF uver = "bitlen" THEN NextPow2Len64(uN) ELSE NextPow2Shifts(uN)
  /\ upc' = "done"
  /\ UNCHANGED <<uN, uver, cacheVars, permVars, lockVars, fftVars, convVars, fmcVars>>

UtilNext == DoNextPow2

SpecUtil == UtilInit /\ [][UtilNext]_vars

(* C20: for every N from 0 to 2^62, NextPow2(N) is the smallest power of two
   that is >= N: 1 for N = 0, 2^k for N = 2^k, and 2^(k+1) for N = 2^k + j
   with 0 < j < 2^k (j = 2^k being the power of two 2^(k+1) itself). *)
C20_NextPow2 ==
  upc = "done" =>
    ures = IF uN = {} THEN {0}
           ELSE IF Cardinality(uN) = 1 THEN uN
           ELSE {HighBit(uN) + 1}

==========================================================================
